---- MODULE Spec2Model ----
(***************************************************************************)
(* SumoTracker: the ingestion pipeline of sumo_tracker.                    *)
(*                                                                         *)
(*   Dedup store     initial_data_dump.store_matches,                      *)
(*                   SumoWebsiteScraper.save_tournament_to_db,             *)
(*                   the table `matches` of models/match.py                *)
(*   Cached transport SumoWebsiteScraper._cached_request and friends       *)
(*   Bout parser     SumoWebsiteScraper.parse_match_data                   *)
(*   Range planner   SumoWebsiteScraper.get_all_tournament_results         *)
(*   Date resolver   SumoWebsiteScraper.get_tournament_dates               *)
(*   Backfill        import_historical_tournaments, initial_data_dump.main *)
(*   Retry loop      SumoWebsiteScraper.fetch_matches                      *)
(*   Day             SumoWebsiteScraper.get_tournament_day_results         *)
(*   Heuristic       daily_update.get_current_tournament_day               *)
(*   Wrestlers       the tables matches and rikishi under their writers    *)
(*   Daily store     daily_update.store_daily_matches                      *)
(*   Cache key       SumoWebsiteScraper._get_cache_key                     *)
(*   Dating          the records of fetch_matches and their match_date     *)
(*   Session         the page GET and AJAX POST of one process (cookies)   *)
(*                                                                         *)
(* Each component has its own variables, its own initial condition and its *)
(* own specification (SpecStore, SpecCache, ...); the variables of the     *)
(* other components keep their idle values.                                *)
(***************************************************************************)
EXTENDS Integers, Sequences, FiniteSets, TLC

VARIABLES
    \* ---- the database and store_matches --------------------------------
    db,                 \* table matches, committed rows: uniqueness key -> number of rows
    txn,                \* rows the session has flushed and not yet committed: key -> number
    pc,                 \* position of store_matches: "idle", "loop", "commit", "done", "raised"
    matches,            \* argument matches of store_matches (each candidate by its key)
    tournament_id,      \* argument tournament_id of store_matches
    existing_matches,   \* local existing_matches
    idx,                \* index of the next candidate of the for loop
    stored_count,       \* local stored_count
    duplicate_count,    \* local duplicate_count
    result,             \* the returned pair, <<>> before the first return
    \* ---- history of the store (read by the properties only) -------------
    run,                \* number of store_matches calls begun
    db_at_call,         \* db when the running call began
    flushed_ok,         \* keys whose add + flush succeeded in the running call
    commit_ok,          \* the final commit of the last call succeeded
    persisted_by_call,  \* number of rows the last call's final commit made durable
    prev_result,        \* result of the call before the running one
    interfered,         \* another writer wrote since the first call began
    save_outcome        \* how the last save_tournament_to_db ended

storeVars == <<db, txn, pc, matches, tournament_id, existing_matches, idx,
               stored_count, duplicate_count, result, run, db_at_call,
               flushed_ok, commit_ok, persisted_by_call, prev_result,
               interfered, save_outcome>>

VARIABLES
    \* ---- the cached transport of SumoWebsiteScraper ----------------------
    use_cache,          \* self.use_cache
    throttled,          \* what self._throttled_request is bound to: "network" or "cache_only"
    original,           \* self._original_throttled_request: "unset", "network" or "cache_only"
    cache,              \* the files response_<key>.pickle of cache_dir: key -> entry
    \* ---- history of the transport (read by the properties only) ----------
    last,               \* the last operation of the transport and how it ended
    prev,               \* the operation before it
    cache_only_requested, \* set_cache_only_mode(True) has been called
    wire                \* what the last two operations did, in order: "sleep"
                        \* for time.sleep(1), "send" for a request to the site

cacheVars == <<use_cache, throttled, original, cache, last, prev,
               cache_only_requested, wire>>

VARIABLES
    \* ---- parse_match_data ----------------------------------------------
    json_data,          \* argument json_data
    match_date,         \* argument match_date
    parse_tournament,   \* argument tournament_id
    day,                \* argument day
    parse_pc,           \* "ready", "returned" or "raised"
    parsed              \* the list parse_match_data returned

parseVars == <<json_data, match_date, parse_tournament, day, parse_pc, parsed>>

VARIABLES
    \* ---- get_all_tournament_results ------------------------------------
    resolution,         \* how the call of get_tournament_dates ends: "returned"
                        \* or "raised"
    tournament_dates,   \* what get_tournament_dates returned: NoDates or a range
    today,              \* date.today(), a day number
    days_to_scrape,     \* local days_to_scrape
    scrape_day,         \* the loop variable day
    days_requested,     \* the days handed to get_tournament_day_results, in order
    range_pc            \* "ready", "loop", "returned" or "raised"

rangeVars == <<resolution, tournament_dates, today, days_to_scrape, scrape_day,
               days_requested, range_pc>>

VARIABLES
    \* ---- get_tournament_dates -------------------------------------------
    _tournament_dates_cache,    \* self._tournament_dates_cache, by tournament id
    mapping_available,          \* tournament_dates_mapping can be imported
    TOURNAMENT_DATES,           \* the table of that module, by tournament id
    resolve_call,               \* the last call: argument, strategies, outcome
    returned_ranges,            \* ghost: the first range returned for each id
    first_strategy              \* ghost: the strategy that gave that range

resolverVars == <<_tournament_dates_cache, mapping_available, TOURNAMENT_DATES,
                  resolve_call, returned_ranges, first_strategy>>

VARIABLES
    \* ---- import_historical_tournaments and the loop of main ---------------
    entry,                  \* "import" or "main": which backfill runs
    start_id,               \* import_historical_tournaments(start_id, end_id, db)
    end_id,
    tournaments_to_scrape,  \* the ids the loop iterates over, in order
    behaviour,              \* what the site and the store do for each id
    position,               \* the index of the next id of the loop
    processed,              \* the ids whose iteration ran, in order
    outcomes,               \* what each of these iterations came to
    tournament_stats,       \* main: tournament_stats, by id
    backfill_pc             \* "loop", "done" or "aborted"

backfillVars == <<entry, start_id, end_id, tournaments_to_scrape, behaviour,
                  position, processed, outcomes, tournament_stats, backfill_pc>>

VARIABLES
    \* ---- fetch_matches ---------------------------------------------------
    retry_count,        \* local retry_count
    attempts,           \* what each iteration of the while loop met, in order
    ajax_requests,      \* the AJAX requests made at line 351
    fetch_result,       \* "none", "empty" ([]) or "matches"
    fetch_pc            \* "loop", "returned" or "raised"

fetchVars == <<retry_count, attempts, ajax_requests, fetch_result, fetch_pc>>

VARIABLES
    \* ---- get_tournament_day_results -------------------------------------
    division_yield,     \* what fetch_matches comes to for each division
    next_division,      \* the loop variable division
    divisions_fetched,  \* the divisions handed to fetch_matches, in order
    all_matches,        \* local all_matches
    day_pc              \* "loop" or "returned"

dayVars == <<division_yield, next_division, divisions_fetched, all_matches,
             day_pc>>

VARIABLES
    \* ---- daily_update.get_current_tournament_day --------------------------
    days_in_month,      \* the length of the month of date.today()
    day_of_month,       \* date.today().day
    current_hour,       \* local current_hour
    tournament_day      \* what the function returned, 0 before it has

heuristicVars == <<days_in_month, day_of_month, current_hour, tournament_day>>

VARIABLES
    \* ---- the tables matches and rikishi under the three writers -----------
    match_table,        \* table matches, committed rows: uniqueness key -> number
    rikishi_table,      \* table rikishi, committed rows: id -> number of rows
    rikishi_importable, \* from ..models.rikishi import Rikishi succeeds
    last_write          \* the last writer that ran and how it ended

wrestlersVars == <<match_table, rikishi_table, rikishi_importable, last_write>>

VARIABLES
    \* ---- daily_update.store_daily_matches ----------------------------------
    daily_db,           \* table matches when the call begins: key -> number of rows
    daily_matches,      \* argument matches (each candidate by its key)
    daily_tournament,   \* argument tournament_id
    daily_pc,           \* "ready", "loop", "returned" or "raised"
    daily_error,        \* the exception that left the call, "none" if none
    daily_result        \* the returned pair, <<>> if nothing was returned

dailyVars == <<daily_db, daily_matches, daily_tournament, daily_pc, daily_error,
               daily_result>>

VARIABLES
    \* ---- _get_cache_key on two requests ------------------------------------
    request_a,          \* method, url, params and data of one call
    request_b,          \* those of the other
    key_a,              \* key_string of request_a, <<>> before it is computed
    key_b               \* key_string of request_b

keyVars == <<request_a, request_b, key_a, key_b>>

VARIABLES
    \* ---- fetch_matches from the AJAX answer to the records -----------------
    fetch_tournament,   \* argument tournament_id
    fetch_day,          \* argument day
    fetch_json,         \* json_data, what response.json() gave
    dates_resolution,   \* how get_tournament_dates(tournament_id) ends
    fetch_dates,        \* what it returned: NoDates or a range
    fetched,            \* the list fetch_matches returned
    dating_pc           \* "answered" or "returned"

datingVars == <<fetch_tournament, fetch_day, fetch_json, dates_resolution,
                fetch_dates, fetched, dating_pc>>

VARIABLES
    \* ---- the two requests of fetch_matches in one process ------------------
    session_pc,         \* the request fetch_matches makes next: "page" or "ajax"
    page_sent           \* ghost: the page GET has gone over the network in
                        \* this process

sessionVars == <<session_pc, page_sent>>

vars == <<storeVars, cacheVars, parseVars, rangeVars, resolverVars,
          backfillVars, fetchVars, dayVars, heuristicVars, wrestlersVars,
          dailyVars, keyVars, datingVars, sessionVars>>

-----------------------------------------------------------------------------
(* Bounds of the model *)

MaxMatches == 2         \* longest candidate list
MaxRuns == 2            \* store_matches calls in one behaviour

TournamentIds == {627, 628}
Names == {"Hoshoryu", "Onosato"}
Dates == {1}

-----------------------------------------------------------------------------
(* The table matches and its uniqueness key *)

\* The key of a row: the columns of uix_tournament_match. A bout is between
\* two different wrestlers.
MatchKeys ==
    {k \in [tournament_id : TournamentIds, winner_name : Names,
            loser_name : Names, match_date : Dates] :
        k.winner_name # k.loser_name}

NoRows == [k \in MatchKeys |-> 0]

Rows(bag) == {k \in MatchKeys : bag[k] > 0}

RECURSIVE SumOver(_, _)
SumOver(bag, S) ==
    IF S = {} THEN 0
    ELSE LET k == CHOOSE x \in S : TRUE IN bag[k] + SumOver(bag, S \ {k})

RowCount(bag) == SumOver(bag, MatchKeys)

Insert(bag, k) == [bag EXCEPT ![k] = @ + 1]

RECURSIVE InsertAll(_, _)
InsertAll(bag, ks) ==
    IF ks = <<>> THEN bag ELSE InsertAll(Insert(bag, Head(ks)), Tail(ks))

NoConstraint(k, rows) == FALSE

\* UniqueConstraint('tournament_id', 'winner_name', 'loser_name', 'match_date'):
\* a row with key k cannot be added to rows that already hold one.
UniqueViolation(k, rows) == rows[k] > 0

\* The rows an INSERT of the session sees: the committed ones and its own.
Visible == [k \in MatchKeys |-> db[k] + txn[k]]

\* A transaction commits unless a row of it now collides with a committed row.
CommitConflict(t) == \E k \in MatchKeys : t[k] > 0 /\ UniqueViolation(k, db)

Merge(a, b) == [k \in MatchKeys |-> a[k] + b[k]]

RECURSIVE BatchViolation(_, _)
\* add_all + commit: the INSERTs of one flush, each checked against the rows
\* before it.
BatchViolation(rows, ks) ==
    IF ks = <<>> THEN FALSE
    ELSE UniqueViolation(Head(ks), rows)
         \/ BatchViolation(Insert(rows, Head(ks)), Tail(ks))

CandidateLists == UNION {[1..n -> MatchKeys] : n \in 0..MaxMatches}

KeysOf(ms) == {ms[j] : j \in 1..Len(ms)}

-----------------------------------------------------------------------------
(* store_matches *)

LoadNothing(rows, t) == {}

\* session.query(Match).filter(Match.tournament_id == tournament_id).all(),
\* as the set of keys.
LoadExisting(rows, t) == {k \in Rows(rows) : k.tournament_id = t}

StoreInit ==
    /\ db = NoRows
    /\ txn = NoRows
    /\ pc = "idle"
    /\ matches \in CandidateLists
    /\ tournament_id \in TournamentIds
    /\ existing_matches = {}
    /\ idx = 1
    /\ stored_count = 0
    /\ duplicate_count = 0
    /\ result = <<>>
    /\ run = 0
    /\ db_at_call = NoRows
    /\ flushed_ok = {}
    /\ commit_ok = FALSE
    /\ persisted_by_call = 0
    /\ prev_result = <<>>
    /\ interfered = FALSE
    /\ save_outcome = "none"

\* Lines 33-40: the counters and the snapshot of the existing keys.
StoreBegin ==
    /\ pc \in {"idle", "done"}
    /\ run < MaxRuns
    /\ run' = run + 1
    /\ stored_count' = 0
    /\ duplicate_count' = 0
    /\ existing_matches' = LoadExisting(db, tournament_id)
    /\ idx' = 1
    /\ pc' = "loop"
    /\ db_at_call' = db
    /\ flushed_ok' = {}
    /\ commit_ok' = FALSE
    /\ persisted_by_call' = 0
    /\ prev_result' = result
    /\ interfered' = (IF run = 0 THEN FALSE ELSE interfered)
    /\ UNCHANGED <<db, txn, matches, tournament_id, result, save_outcome>>

\* Lines 42-45: a candidate whose key is in existing_matches is passed over.
StoreSkip ==
    /\ pc = "loop"
    /\ idx <= Len(matches)
    /\ matches[idx] \in existing_matches
    /\ idx' = idx + 1
    /\ UNCHANGED <<db, txn, pc, matches, tournament_id, existing_matches,
                   stored_count, duplicate_count, result, run, db_at_call,
                   flushed_ok, commit_ok, persisted_by_call, prev_result,
                   interfered, save_outcome>>

\* Lines 46-50: add + flush succeed.
StoreFlush ==
    /\ pc = "loop"
    /\ idx <= Len(matches)
    /\ matches[idx] \notin existing_matches
    /\ ~UniqueViolation(matches[idx], Visible)
    /\ txn' = Insert(txn, matches[idx])
    /\ stored_count' = stored_count + 1
    /\ existing_matches' = existing_matches \cup {matches[idx]}
    /\ flushed_ok' = flushed_ok \cup {matches[idx]}
    /\ idx' = idx + 1
    /\ UNCHANGED <<db, pc, matches, tournament_id, duplicate_count, result,
                   run, db_at_call, commit_ok, persisted_by_call, prev_result,
                   interfered, save_outcome>>

\* Lines 51-55: the flush raises IntegrityError; session.rollback() ends the
\* session's transaction, and with it every row flushed in it so far.
StoreFlushFails ==
    /\ pc = "loop"
    /\ idx <= Len(matches)
    /\ matches[idx] \notin existing_matches
    /\ UniqueViolation(matches[idx], Visible)
    /\ txn' = NoRows
    /\ duplicate_count' = duplicate_count + 1
    /\ idx' = idx + 1
    /\ UNCHANGED <<db, pc, matches, tournament_id, existing_matches,
                   stored_count, result, run, db_at_call, flushed_ok,
                   commit_ok, persisted_by_call, prev_result,
                   interfered, save_outcome>>

\* Line 42: the for loop is exhausted.
StoreLoopEnd ==
    /\ pc = "loop"
    /\ idx > Len(matches)
    /\ pc' = "commit"
    /\ UNCHANGED <<db, txn, matches, tournament_id, existing_matches, idx,
                   stored_count, duplicate_count, result, run, db_at_call,
                   flushed_ok, commit_ok, persisted_by_call, prev_result,
                   interfered, save_outcome>>

\* Lines 57-58 and 63-66: the final commit succeeds; return.
StoreCommit ==
    /\ pc = "commit"
    /\ ~CommitConflict(txn)
    /\ db' = Merge(db, txn)
    /\ txn' = NoRows
    /\ commit_ok' = TRUE
    /\ persisted_by_call' = RowCount(txn)
    /\ result' = <<Len(matches), stored_count>>
    /\ pc' = "done"
    /\ UNCHANGED <<matches, tournament_id, existing_matches, idx,
                   stored_count, duplicate_count, run, db_at_call, flushed_ok,
                   prev_result, interfered, save_outcome>>

\* Lines 59-66: the final commit raises IntegrityError; rollback; return.
StoreCommitFails ==
    /\ pc = "commit"
    /\ CommitConflict(txn)
    /\ txn' = NoRows
    /\ commit_ok' = FALSE
    /\ persisted_by_call' = 0
    /\ result' = <<Len(matches), stored_count>>
    /\ pc' = "done"
    /\ UNCHANGED <<db, matches, tournament_id, existing_matches, idx,
                   stored_count, duplicate_count, run, db_at_call, flushed_ok,
                   prev_result, interfered, save_outcome>>

\* Lines 57-58: the final commit raises an error that is no IntegrityError
\* (OperationalError for a locked database or a full disk): the handler of
\* line 59 does not match, the rows are not made durable and the error
\* leaves store_matches.
StoreCommitRaises ==
    /\ pc = "commit"
    /\ txn' = NoRows
    /\ commit_ok' = FALSE
    /\ persisted_by_call' = 0
    /\ pc' = "raised"
    /\ UNCHANGED <<db, matches, tournament_id, existing_matches, idx,
                   stored_count, duplicate_count, result, run, db_at_call,
                   flushed_ok, prev_result, interfered, save_outcome>>

-----------------------------------------------------------------------------
(* The other writers of the table *)

\* Another session (another run of a script) commits one row; the table's
\* constraint holds for it as for everyone.
OtherWriter ==
    /\ \E k \in MatchKeys :
          /\ ~UniqueViolation(k, db)
          /\ db' = Insert(db, k)
    /\ interfered' = TRUE
    /\ UNCHANGED <<txn, pc, matches, tournament_id, existing_matches, idx,
                   stored_count, duplicate_count, result, run, db_at_call,
                   flushed_ok, commit_ok, persisted_by_call, prev_result,
                   save_outcome>>

\* What get_all_tournament_results(t) can hand to save_tournament_to_db: the
\* parser gives every record the tournament id it was called with. An empty
\* list is not saved (line 458).
ScrapedLists ==
    {ms \in CandidateLists \ {<<>>} :
        \A j \in 1..Len(ms) : ms[j].tournament_id = ms[1].tournament_id}

\* save_tournament_to_db, lines 457-460: ensure_rikishi_exist imports
\* ..models.rikishi, a module the package does not hold; the import raises
\* and nothing is written.
SaveImportFails ==
    /\ pc \in {"idle", "done"}
    /\ ScrapedLists # {}
    /\ save_outcome' = "ImportError"
    /\ UNCHANGED <<db, txn, pc, matches, tournament_id, existing_matches, idx,
                   stored_count, duplicate_count, result, run, db_at_call,
                   flushed_ok, commit_ok, persisted_by_call, prev_result,
                   interfered>>

\* save_tournament_to_db, lines 463-465, where the wrestlers could be ensured:
\* add_all + commit write every scraped record in one transaction of the
\* session db.
SaveCommit ==
    /\ pc \in {"idle", "done"}
    /\ \E ms \in ScrapedLists :
          /\ ~BatchViolation(db, ms)
          /\ db' = InsertAll(db, ms)
    /\ save_outcome' = "saved"
    /\ interfered' = TRUE
    /\ UNCHANGED <<txn, pc, matches, tournament_id, existing_matches, idx,
                   stored_count, duplicate_count, result, run, db_at_call,
                   flushed_ok, commit_ok, persisted_by_call, prev_result>>

\* The same, when a record collides: the commit raises IntegrityError out of
\* save_tournament_to_db and the transaction is gone.
SaveCommitFails ==
    /\ pc \in {"idle", "done"}
    /\ {ms \in ScrapedLists : BatchViolation(db, ms)} # {}
    /\ save_outcome' = "IntegrityError"
    /\ UNCHANGED <<db, txn, pc, matches, tournament_id, existing_matches, idx,
                   stored_count, duplicate_count, result, run, db_at_call,
                   flushed_ok, commit_ok, persisted_by_call, prev_result,
                   interfered>>

-----------------------------------------------------------------------------
(* The cached transport *)

\* Field names and values of the forms, as numbers in the order sorted()
\* gives the names: basho_id < day < kakuzuke_id.
BashoId == 1
Day == 2
KakuzukeId == 3

\* The requests of the scraper for tournament 628, division 1, day 1: the page
\* GET and the AJAX POST of fetch_matches, the AJAX POST of
\* get_tournament_dates (the same form, the URL without the last slash).
PageRequest ==
    [method |-> "get", url |-> "/EnHonbashoMain/torikumi/1/1/",
     params |-> {<<BashoId, 628>>}, data |-> {}]
AjaxRequest ==
    [method |-> "post", url |-> "/EnHonbashoMain/torikumiAjax/1/1/",
     params |-> {}, data |-> {<<BashoId, 628>>, <<Day, 1>>, <<KakuzukeId, 1>>}]
DatesRequest ==
    [method |-> "post", url |-> "/EnHonbashoMain/torikumiAjax/1/1",
     params |-> {}, data |-> {<<BashoId, 628>>, <<Day, 1>>, <<KakuzukeId, 1>>}]

Requests == {PageRequest, AjaxRequest, DatesRequest}

RECURSIVE SortedItems(_)
\* sorted(d.items()) with each item formatted "k=v": the items by name.
SortedItems(items) ==
    IF items = {} THEN <<>>
    ELSE LET first == CHOOSE x \in items : \A y \in items : x[1] <= y[1]
         IN <<first>> \o SortedItems(items \ {first})

\* _get_cache_key: the parts joined to key_string; the key is its md5 digest,
\* which is taken here to tell two key_strings apart.
_get_cache_key(req) ==
    <<req.method, req.url>> \o SortedItems(req.params) \o SortedItems(req.data)

\* The key of each request of the model.
KeyOf == [req \in Requests |-> _get_cache_key(req)]

CacheKeys == {KeyOf[req] : req \in Requests}

\* The callers of _cached_request (fetch_matches, lines 348 and 351) and of
\* a bare self._throttled_request (get_tournament_dates, line 240).
CachedCallers == {PageRequest, AjaxRequest}
DirectCallers == {DatesRequest}

StatusCodes == {200, 204, 500}
Bodies == {"json", "garbage"}

\* What the server can answer.
Responses == [status_code : StatusCodes, json_content_type : BOOLEAN, text : Bodies]

\* requests raises (connection error, timeout) instead of answering.
TransportError == [status_code |-> 0, json_content_type |-> FALSE, text |-> "error"]

NetOutcomes == Responses \cup {TransportError}

NoEntry == [text |-> "", json |-> "absent"]

NoResponse == [status_code |-> 0, json_content_type |-> FALSE, text |-> "", json |-> "absent"]

\* response.json() of a response of the network: the decoded body, or
\* JSONDecodeError.
Live(r) ==
    [status_code |-> r.status_code, json_content_type |-> r.json_content_type,
     text |-> r.text, json |-> IF r.text = "json" THEN "value" ELSE "raises"]

\* The CachedResponse object built from an entry (lines 102-108, 200-206):
\* status 200, json() gives the stored value.
Synthesized(e) ==
    [status_code |-> 200, json_content_type |-> FALSE, text |-> e.text, json |-> e.json]

\* fetch_matches on the answer of its AJAX request, lines 352-376:
\* response.json() raises JSONDecodeError (retry), gives None (return []), or
\* gives the data the records are parsed from.
ReadByFetch(response) ==
    IF response.json = "raises" THEN "retry"
    ELSE IF response.json = "None" THEN "empty"
    ELSE "records"

Raised == [outcome |-> "raised", net |-> FALSE, response |-> NoResponse, events |-> <<>>]

CachedOnlyFallsBack(req) ==
    IF cache[KeyOf[req]] = NoEntry
    THEN [outcome |-> "network", net |-> TRUE,
          response |-> Live([status_code |-> 200, json_content_type |-> TRUE, text |-> "json"]),
          events |-> <<"sleep", "send">>]
    ELSE [outcome |-> "cache", net |-> FALSE,
          response |-> Synthesized(cache[KeyOf[req]]), events |-> <<>>]

\* _cached_request_only, lines 188-207.
_cached_request_only(req) ==
    IF cache[KeyOf[req]] = NoEntry
    THEN Raised
    ELSE [outcome |-> "cache", net |-> FALSE,
          response |-> Synthesized(cache[KeyOf[req]]), events |-> <<>>]

ThrottledWithoutDelay(req, o) ==
    IF throttled = "network"
    THEN IF o = TransportError
         THEN [outcome |-> "raised", net |-> TRUE, response |-> NoResponse,
               events |-> <<"send">>]
         ELSE [outcome |-> "network", net |-> TRUE, response |-> Live(o),
               events |-> <<"send">>]
    ELSE _cached_request_only(req)

\* self._throttled_request(method, url, **kwargs): the method of lines
\* 167-174, which sleeps (line 170) and sends (lines 171-174), or the lambda
\* of line 183. o is what the network does with the request.
_throttled_request(req, o) ==
    IF throttled = "network"
    THEN IF o = TransportError
         THEN [outcome |-> "raised", net |-> TRUE, response |-> NoResponse,
               events |-> <<"sleep", "send">>]
         ELSE [outcome |-> "network", net |-> TRUE, response |-> Live(o),
               events |-> <<"sleep", "send">>]
    ELSE _cached_request_only(req)

CacheAny2xx(r) == r.status_code \in 200..299

CacheAnyStatus(r) == TRUE

\* Line 117: if response.status_code == 200.
ShouldCache(r) == r.status_code = 200

\* Lines 118-128: building cached_data calls response.json() when the
\* Content-Type is JSON; if that raises nothing is written.
CachingRaises(r) == r.json_content_type /\ r.json = "raises"

\* Lines 119-123.
CachedData(r) ==
    [text |-> r.text, json |-> IF r.json_content_type THEN r.json ELSE "None"]

NoOperation ==
    [op |-> "none", req |-> PageRequest, use_cache |-> FALSE, hit |-> FALSE,
     outcome |-> "none", net |-> FALSE, wrote |-> FALSE, response |-> NoResponse]

\* What prev keeps of an operation.
Brief(operation) ==
    [op |-> operation.op, req |-> operation.req, use_cache |-> operation.use_cache,
     hit |-> operation.hit, net |-> operation.net, wrote |-> operation.wrote]

CacheInit ==
    /\ use_cache \in BOOLEAN
    /\ throttled = "network"
    /\ original = "unset"
    /\ cache = [k \in CacheKeys |-> NoEntry]
    /\ last = NoOperation
    /\ prev = Brief(NoOperation)
    /\ cache_only_requested = FALSE
    /\ wire = <<(<<>>), (<<>>)>>

\* _cached_request(method, url, **kwargs), lines 86-130.
CachedRequest ==
    \E req \in CachedCallers, o \in NetOutcomes :
        LET key == KeyOf[req]
            hit == use_cache /\ cache[key] # NoEntry
            res == IF hit
                   THEN [outcome |-> "cache", net |-> FALSE,
                         response |-> Synthesized(cache[key]), events |-> <<>>]
                   ELSE _throttled_request(req, o)
            write == /\ use_cache
                     /\ ~hit
                     /\ res.outcome # "raised"
                     /\ ShouldCache(res.response)
                     /\ ~CachingRaises(res.response)
        IN /\ cache' = IF write THEN [cache EXCEPT ![key] = CachedData(res.response)]
                       ELSE cache
           /\ prev' = Brief(last)
           /\ last' = [op |-> "cached", req |-> req, use_cache |-> use_cache,
                       hit |-> hit, outcome |-> res.outcome, net |-> res.net,
                       wrote |-> write, response |-> res.response]
           /\ wire' = <<wire[2], res.events>>
           /\ UNCHANGED <<use_cache, throttled, original, cache_only_requested>>

\* A direct self._throttled_request(...), as get_tournament_dates makes it
\* (line 240): no cache is consulted or written by the caller.
DirectRequest ==
    \E req \in DirectCallers, o \in NetOutcomes :
        LET res == _throttled_request(req, o)
        IN /\ prev' = Brief(last)
           /\ last' = [op |-> "direct", req |-> req, use_cache |-> use_cache,
                       hit |-> cache[KeyOf[req]] # NoEntry,
                       outcome |-> res.outcome, net |-> res.net,
                       wrote |-> FALSE, response |-> res.response]
           /\ wire' = <<wire[2], res.events>>
           /\ UNCHANGED <<use_cache, throttled, original, cache,
                          cache_only_requested>>

\* set_cache_only_mode(cache_only), lines 176-186.
SetCacheOnlyMode ==
    \E cache_only \in BOOLEAN :
        /\ use_cache' = TRUE
        /\ original' = throttled
        /\ throttled' = IF cache_only THEN "cache_only" ELSE original'
        /\ cache_only_requested' = (cache_only_requested \/ cache_only)
        /\ prev' = Brief(last)
        /\ last' = [NoOperation EXCEPT !.op = "mode", !.use_cache = cache_only]
        /\ wire' = <<wire[2], <<>>>>
        /\ UNCHANGED cache

\* The transport before any scraper is built.
CacheIdle ==
    /\ use_cache = FALSE
    /\ throttled = "network"
    /\ original = "unset"
    /\ cache = [k \in CacheKeys |-> NoEntry]
    /\ last = NoOperation
    /\ prev = Brief(NoOperation)
    /\ cache_only_requested = FALSE
    /\ wire = <<(<<>>), (<<>>)>>

-----------------------------------------------------------------------------
(* The bout parser *)

MaxBouts == 2           \* longest TorikumiData list

\* A key the JSON object does not hold.
Absent == "<absent>"

\* JSON null, Python None.
None == "None"

\* The value of judge: a number, a string, or no such key.
JudgeValues ==
    {[kind |-> "missing", value |-> 0], [kind |-> "str", value |-> 1]}
        \cup {[kind |-> "int", value |-> n] : n \in 0..3}

\* east and west: no such key, null, or an object.
EastSides ==
    {[kind |-> "missing", shikona_eng |-> Absent, rikishi_id |-> Absent,
      banzuke_name_eng |-> Absent],
     [kind |-> "null", shikona_eng |-> Absent, rikishi_id |-> Absent,
      banzuke_name_eng |-> Absent],
     [kind |-> "dict", shikona_eng |-> "Hoshoryu", rikishi_id |-> "3842",
      banzuke_name_eng |-> "Makuuchi"],
     [kind |-> "dict", shikona_eng |-> "Hoshoryu", rikishi_id |-> "3842",
      banzuke_name_eng |-> ""]}

WestSides ==
    {[kind |-> "null", shikona_eng |-> Absent, rikishi_id |-> Absent,
      banzuke_name_eng |-> Absent],
     [kind |-> "dict", shikona_eng |-> "Onosato", rikishi_id |-> Absent,
      banzuke_name_eng |-> "Juryo"]}

EmptyDict ==
    [kind |-> "dict", shikona_eng |-> Absent, rikishi_id |-> Absent,
     banzuke_name_eng |-> Absent]

Techniques == {"yorikiri", Absent}

\* An element of TorikumiData that is no JSON object (a number, a string,
\* null): match.get raises AttributeError.
NotAnObject ==
    [kind |-> "scalar", judge |-> [kind |-> "missing", value |-> 0],
     technic_name_eng |-> Absent, east |-> EmptyDict, west |-> EmptyDict]

\* The bouts of the model: every shape of the two sides and of the technique
\* for the decided bouts, and one bout for each other value of judge.
Bouts ==
    {b \in [kind : {"dict"}, judge : JudgeValues, technic_name_eng : Techniques,
            east : EastSides, west : WestSides] :
        \/ (b.judge.kind = "int" /\ b.judge.value \in {1, 2})
        \/ (b.east.banzuke_name_eng = "Makuuchi" /\ b.west.kind = "dict"
            /\ b.technic_name_eng = "yorikiri")}
        \cup {NotAnObject}

BoutLists == UNION {[1..n -> Bouts] : n \in 0..MaxBouts}

\* json_data: None, a JSON value that is no object (a list), or an object
\* whose TorikumiData is absent, null, a number or a list of bouts.
JsonInputs ==
    {[kind |-> "None", torikumi |-> "missing", bouts |-> <<>>],
     [kind |-> "list", torikumi |-> "missing", bouts |-> <<>>],
     [kind |-> "dict", torikumi |-> "missing", bouts |-> <<>>],
     [kind |-> "dict", torikumi |-> "null", bouts |-> <<>>],
     [kind |-> "dict", torikumi |-> "number", bouts |-> <<>>]}
        \cup {[kind |-> "dict", torikumi |-> "list", bouts |-> bs] : bs \in BoutLists}

\* d.get(field, default) on one side of a bout.
Get(d, field, default) == IF d[field] = Absent THEN default ELSE d[field]

\* match.get('east', {}) or {}: no key and null both give the empty dict.
OrEmpty(side) == IF side.kind = "dict" THEN side ELSE EmptyDict

\* a or b of two strings.
Or(a, b) == IF a # "" /\ a # None THEN a ELSE b

\* match.get('judge') == n
JudgeIs(b, n) == b.judge.kind = "int" /\ b.judge.value = n

\* Match(...), lines 296-306 and 308-318.
Match(t, d, date, division, winner, loser, technique) ==
    [tournament_id |-> t, tournament_day |-> d, match_date |-> date,
     division |-> division,
     winner_name |-> Get(winner, "shikona_eng", ""),
     loser_name |-> Get(loser, "shikona_eng", ""),
     winner_id |-> Get(winner, "rikishi_id", None),
     loser_id |-> Get(loser, "rikishi_id", None),
     winning_technique |-> technique]

ParseBoutEastWins(b, date, t, d) ==
    LET east == OrEmpty(b.east)
        west == OrEmpty(b.west)
    IN IF JudgeIs(b, 1) \/ JudgeIs(b, 2)
       THEN <<Match(t, d, date,
                    Or(Get(east, "banzuke_name_eng", ""), Get(west, "banzuke_name_eng", "")),
                    east, west, Get(b, "technic_name_eng", ""))>>
       ELSE <<>>

ParseBoutBothSides(b, date, t, d) ==
    LET east == OrEmpty(b.east)
        west == OrEmpty(b.west)
        division == Or(Get(east, "banzuke_name_eng", ""), Get(west, "banzuke_name_eng", ""))
        technique == Get(b, "technic_name_eng", "")
    IN IF JudgeIs(b, 1)
       THEN <<Match(t, d, date, division, east, west, technique),
              Match(t, d, date, division, west, east, technique)>>
       ELSE IF JudgeIs(b, 2)
       THEN <<Match(t, d, date, division, west, east, technique),
              Match(t, d, date, division, east, west, technique)>>
       ELSE <<>>

\* The body of the try of one iteration, lines 282-318, for a bout that is
\* an object: the records it appends.
ParseBout(b, date, t, d) ==
    LET technique == Get(b, "technic_name_eng", "")
        east == OrEmpty(b.east)
        west == OrEmpty(b.west)
        division == Or(Get(east, "banzuke_name_eng", ""),
                       Get(west, "banzuke_name_eng", ""))
    IN IF JudgeIs(b, 1)
       THEN <<Match(t, d, date, division, east, west, technique)>>
       ELSE IF JudgeIs(b, 2)
       THEN <<Match(t, d, date, division, west, east, technique)>>
       ELSE <<>>

RECURSIVE ParseLoopStopsAtError(_, _, _, _)
ParseLoopStopsAtError(bouts, date, t, d) ==
    IF bouts = <<>> THEN <<>>
    ELSE IF Head(bouts).kind # "dict" THEN <<>>
    ELSE ParseBout(Head(bouts), date, t, d)
            \o ParseLoopStopsAtError(Tail(bouts), date, t, d)

RECURSIVE ParseLoop(_, _, _, _)
\* The for loop, lines 280-321: an iteration that raises is logged and the
\* loop continues.
ParseLoop(bouts, date, t, d) ==
    IF bouts = <<>> THEN <<>>
    ELSE (IF Head(bouts).kind # "dict" THEN <<>>
          ELSE ParseBout(Head(bouts), date, t, d))
            \o ParseLoop(Tail(bouts), date, t, d)

\* parse_match_data, lines 264-323: what it returns, or that it raises.
parse_match_data(json, date, t, d) ==
    IF json.kind = "None" THEN [raised |-> FALSE, matches |-> <<>>]
    ELSE IF json.kind # "dict" THEN [raised |-> TRUE, matches |-> <<>>]
    ELSE IF json.torikumi = "missing" THEN [raised |-> FALSE, matches |-> <<>>]
    ELSE IF json.torikumi = "null" THEN [raised |-> FALSE, matches |-> <<>>]
    ELSE IF json.torikumi # "list" THEN [raised |-> TRUE, matches |-> <<>>]
    ELSE [raised |-> FALSE, matches |-> ParseLoop(json.bouts, date, t, d)]

ParseInit ==
    /\ json_data \in JsonInputs
    /\ match_date \in {1, 2}
    /\ parse_tournament \in {627, 628}
    /\ day \in {1, 2}
    /\ parse_pc = "ready"
    /\ parsed = <<>>

ParseMatchData ==
    /\ parse_pc = "ready"
    /\ LET out == parse_match_data(json_data, match_date, parse_tournament, day)
       IN /\ parse_pc' = IF out.raised THEN "raised" ELSE "returned"
          /\ parsed' = out.matches
    /\ UNCHANGED <<json_data, match_date, parse_tournament, day>>

\* No call of the parser.
ParseIdle ==
    /\ json_data = [kind |-> "None", torikumi |-> "missing", bouts |-> <<>>]
    /\ match_date = 1
    /\ parse_tournament = 628
    /\ day = 1
    /\ parse_pc = "ready"
    /\ parsed = <<>>

-----------------------------------------------------------------------------
(* The range planner and the day loop of get_all_tournament_results *)

MaxDate == 32           \* the latest day number of today

\* timedelta(days=14), line 249: the last day of a tournament.
TournamentLength == 14

\* Line 433: the days of a concluded tournament.
AllDays == 15

StartDates == {10, 12}

\* get_tournament_dates returned None.
NoDates == [resolved |-> FALSE, start_date |-> 0, end_date |-> 0]

\* end_date - start_date of the ranges get_tournament_dates can return: 14 for
\* a range extracted from the AJAX answer (line 249); an entry of
\* TOURNAMENT_DATES (line 222) or of tournament_dates.pickle (lines 52, 214)
\* is returned as it is stored, whatever its length.
RangeLengths == {TournamentLength, TournamentLength + 2}

ResolvedRanges ==
    {[resolved |-> TRUE, start_date |-> d, end_date |-> d + n] :
        d \in StartDates, n \in RangeLengths}

DaysToScrapeNoPlusOne(start_date, end_date, now) ==
    IF end_date < now THEN AllDays
    ELSE IF start_date <= now /\ now <= end_date THEN now - start_date
    ELSE 0

\* Lines 430-439.
DaysToScrape(start_date, end_date, now) ==
    IF end_date < now THEN AllDays
    ELSE IF start_date <= now /\ now <= end_date THEN (now - start_date) + 1
    ELSE 0

\* get_tournament_dates returns a range or None, or raises: the call of
\* line 419 is in no try block and get_tournament_dates lets the errors of
\* its lines 223-226 out (they arise inside the handler of ImportError).
Resolutions == {"returned", "raised"}

RangeInit ==
    /\ resolution \in Resolutions
    /\ tournament_dates \in IF resolution = "raised" THEN {NoDates}
                            ELSE ResolvedRanges \cup {NoDates}
    /\ today \in 0..MaxDate
    /\ days_to_scrape = 0
    /\ scrape_day = 1
    /\ days_requested = <<>>
    /\ range_pc = "ready"

\* Lines 419-422: the dates cannot be resolved; return [].
RangeNoDates ==
    /\ range_pc = "ready"
    /\ resolution = "returned"
    /\ ~tournament_dates.resolved
    /\ range_pc' = "returned"
    /\ UNCHANGED <<resolution, tournament_dates, today, days_to_scrape, scrape_day,
                   days_requested>>

\* Line 419: get_tournament_dates raises and nothing catches it.
RangeDatesRaise ==
    /\ range_pc = "ready"
    /\ resolution = "raised"
    /\ range_pc' = "raised"
    /\ UNCHANGED <<resolution, tournament_dates, today, days_to_scrape,
                   scrape_day, days_requested>>

\* Lines 424-441: the number of days to scrape.
RangePlan ==
    /\ range_pc = "ready"
    /\ resolution = "returned"
    /\ tournament_dates.resolved
    /\ days_to_scrape' = DaysToScrape(tournament_dates.start_date,
                                      tournament_dates.end_date, today)
    /\ scrape_day' = 1
    /\ range_pc' = "loop"
    /\ UNCHANGED <<resolution, tournament_dates, today, days_requested>>

\* Lines 443-449: one iteration of for day in range(1, days_to_scrape + 1).
RangeScrapeDay ==
    /\ range_pc = "loop"
    /\ days_to_scrape > 0
    /\ scrape_day <= days_to_scrape
    /\ days_requested' = Append(days_requested, scrape_day)
    /\ scrape_day' = scrape_day + 1
    /\ UNCHANGED <<resolution, tournament_dates, today, days_to_scrape, range_pc>>

\* Lines 450-453: the loop is over, or there was nothing to scrape.
RangeReturn ==
    /\ range_pc = "loop"
    /\ (days_to_scrape > 0 => scrape_day > days_to_scrape)
    /\ range_pc' = "returned"
    /\ UNCHANGED <<resolution, tournament_dates, today, days_to_scrape, scrape_day,
                   days_requested>>

\* No call of get_all_tournament_results.
RangeIdle ==
    /\ resolution = "returned"
    /\ tournament_dates = NoDates
    /\ today = 0
    /\ days_to_scrape = 0
    /\ scrape_day = 1
    /\ days_requested = <<>>
    /\ range_pc = "ready"

-----------------------------------------------------------------------------
(* The date resolver: get_tournament_dates *)

\* A dictionary of ranges by tournament id; NoDates stands for no entry.
DateTables == [TournamentIds -> ResolvedRanges \cup {NoDates}]

NoTable == [t \in TournamentIds |-> NoDates]

\* What the AJAX call of lines 240-246 can come to: requests raises, the
\* status is an error, the body is no JSON, the JSON is no object, dayHead
\* holds no date, dayHead is no string, the date names no month, or dayHead
\* holds the date of day 1.
AjaxFailures ==
    {"transport_error", "http_error", "invalid_json", "not_an_object",
     "no_date", "day_head_not_a_string", "no_such_month"}

AjaxOutcomes ==
    {[kind |-> k, start_date |-> 0] : k \in AjaxFailures}
        \cup {[kind |-> "date", start_date |-> d] : d \in StartDates}

\* The failures that raise where no handler of the function catches them:
\* lines 240, 241, 246 and 248 run inside the handler of ImportError, which
\* the except Exception of line 260 does not cover; the try of lines 243-255
\* catches JSONDecodeError and AttributeError only.
RaisesOutOfHandler(o) ==
    o.kind \in {"transport_error", "http_error", "day_head_not_a_string",
                "no_such_month"}

\* Lines 248-249.
ExtractedRange(o) ==
    [resolved |-> TRUE, start_date |-> o.start_date,
     end_date |-> o.start_date + TournamentLength]

CacheReplaced(dates, t, r) == [x \in TournamentIds |-> IF x = t THEN r ELSE NoDates]

CacheNotPopulated(dates, t, r) == dates

\* Lines 220 and 252: self._tournament_dates_cache[tournament_id] = ...
CachePopulated(dates, t, r) == [dates EXCEPT ![t] = r]

\* get_tournament_dates(tournament_id), lines 209-262, with o what the AJAX
\* call comes to if it is made: the strategies attempted in order, the number
\* of network calls, the outcome and the in-memory cache afterwards.
get_tournament_dates(t, o) ==
    IF _tournament_dates_cache[t] # NoDates
    THEN [attempted |-> <<"memory">>, net |-> 0, outcome |-> "range",
          range |-> _tournament_dates_cache[t], dates |-> _tournament_dates_cache]
    ELSE IF mapping_available
    THEN IF TOURNAMENT_DATES[t] # NoDates
         THEN [attempted |-> <<"memory", "table">>, net |-> 0, outcome |-> "range",
               range |-> TOURNAMENT_DATES[t],
               dates |-> CachePopulated(_tournament_dates_cache, t, TOURNAMENT_DATES[t])]
         ELSE [attempted |-> <<"memory", "table">>, net |-> 0, outcome |-> "None",
               range |-> NoDates, dates |-> _tournament_dates_cache]
    ELSE IF RaisesOutOfHandler(o)
    THEN [attempted |-> <<"memory", "table", "ajax">>, net |-> 1, outcome |-> "raised",
          range |-> NoDates, dates |-> _tournament_dates_cache]
    ELSE IF o.kind = "date"
    THEN [attempted |-> <<"memory", "table", "ajax">>, net |-> 1, outcome |-> "range",
          range |-> ExtractedRange(o),
          dates |-> CachePopulated(_tournament_dates_cache, t, ExtractedRange(o))]
    ELSE [attempted |-> <<"memory", "table", "ajax">>, net |-> 1, outcome |-> "None",
          range |-> NoDates, dates |-> _tournament_dates_cache]

NoCall ==
    [t |-> 0, o |-> "none", attempted |-> <<>>, net |-> 0, outcome |-> "none",
     range |-> NoDates, cached_before |-> NoDates, in_table |-> FALSE,
     returned_before |-> NoDates, dates_before |-> NoTable]

\* __init__, lines 43-44: the in-memory cache is what tournament_dates.pickle
\* holds, or empty without the file; the module tournament_dates_mapping is
\* there or is not.
ResolverInit ==
    /\ _tournament_dates_cache \in DateTables
    /\ mapping_available \in BOOLEAN
    /\ TOURNAMENT_DATES \in DateTables
    /\ ~mapping_available => TOURNAMENT_DATES = NoTable
    /\ resolve_call = NoCall
    /\ returned_ranges = NoTable
    /\ first_strategy = [t \in TournamentIds |-> "none"]

\* One call of get_tournament_dates.
GetTournamentDates ==
    \E t \in TournamentIds, o \in AjaxOutcomes :
        LET res == get_tournament_dates(t, o)
            first == res.outcome = "range" /\ returned_ranges[t] = NoDates
        IN /\ _tournament_dates_cache' = res.dates
           /\ resolve_call' =
                  [t |-> t, o |-> o.kind, attempted |-> res.attempted, net |-> res.net,
                   outcome |-> res.outcome, range |-> res.range,
                   cached_before |-> _tournament_dates_cache[t],
                   in_table |-> mapping_available /\ TOURNAMENT_DATES[t] # NoDates,
                   returned_before |-> returned_ranges[t],
                   dates_before |-> _tournament_dates_cache]
           /\ returned_ranges' =
                  IF first THEN [returned_ranges EXCEPT ![t] = res.range]
                  ELSE returned_ranges
           /\ first_strategy' =
                  IF first
                  THEN [first_strategy EXCEPT ![t] = res.attempted[Len(res.attempted)]]
                  ELSE first_strategy
           /\ UNCHANGED <<mapping_available, TOURNAMENT_DATES>>

\* No scraper: nothing resolved.
ResolverIdle ==
    /\ _tournament_dates_cache = NoTable
    /\ mapping_available = FALSE
    /\ TOURNAMENT_DATES = NoTable
    /\ resolve_call = NoCall
    /\ returned_ranges = NoTable
    /\ first_strategy = [t \in TournamentIds |-> "none"]

-----------------------------------------------------------------------------
(* The backfill: import_historical_tournaments and the loop of main *)

BackfillIds == {626, 627, 628}

\* What processing one id meets: get_tournament_dates returns None; it raises
\* (lines 240-248 outside every handler); the crawl finds no match; the crawl
\* finds matches and they are stored; the crawl finds matches and storing
\* them raises (an ImportError of ensure_rikishi_exist, an error of the
\* database that is no IntegrityError).
Behaviours == {"dates_none", "dates_raise", "no_matches", "matches", "store_raises"}

\* The number of matches a crawl with matches finds.
Found == 2

RangeExclusive(lo, hi) ==
    IF hi - 1 < lo THEN <<>>
    ELSE [i \in 1..(hi - lo) |-> lo + i - 1]

\* list(range(start_id, end_id + 1)), line 473.
HistoricalRange(lo, hi) ==
    IF hi < lo THEN <<>>
    ELSE [i \in 1..(hi - lo + 1) |-> lo + i - 1]

\* list(range(628, stop, -1)): line 102 has stop = 626, the ids 628 and 627;
\* stop = 625 gives the three ids its comment names.
DescendingRange(first, stop) ==
    IF first <= stop THEN <<>>
    ELSE [i \in 1..(first - stop) |-> first - i + 1]

MainLists == {DescendingRange(628, 626), DescendingRange(628, 625)}

NoStats == [recorded |-> FALSE, total |-> 0, stored |-> 0]

\* save_tournament_to_db(tournament_id, db) inside the try of lines 475-479:
\* an exception is logged and the loop goes on.
ImportIteration(b) ==
    IF b \in {"dates_raise", "store_raises"} THEN "error_caught"
    ELSE IF b = "matches" THEN "saved"
    ELSE "no_matches"

\* One iteration of the loop of main, lines 108-140: no handler inside the
\* loop; an exception goes to the except of line 156, outside the loop.
MainIteration(b) ==
    IF b \in {"dates_raise", "store_raises"} THEN "raised"
    ELSE IF b = "matches" THEN "stats"
    ELSE IF b = "no_matches" THEN "no_matches"
    ELSE "no_dates"

BackfillInit ==
    /\ entry \in {"import", "main"}
    /\ start_id \in BackfillIds
    /\ end_id \in BackfillIds
    /\ entry = "main" => (start_id = 628 /\ end_id = 628)
    /\ tournaments_to_scrape \in
          (IF entry = "import" THEN {HistoricalRange(start_id, end_id)} ELSE MainLists)
    /\ behaviour \in [BackfillIds -> Behaviours]
    /\ position = 1
    /\ processed = <<>>
    /\ outcomes = <<>>
    /\ tournament_stats = [t \in BackfillIds |-> NoStats]
    /\ backfill_pc = "loop"

\* import_historical_tournaments, lines 473-479: one iteration.
ImportTournament ==
    /\ entry = "import"
    /\ backfill_pc = "loop"
    /\ position <= Len(tournaments_to_scrape)
    /\ LET t == tournaments_to_scrape[position]
           out == ImportIteration(behaviour[t])
       IN /\ processed' = Append(processed, t)
          /\ outcomes' = Append(outcomes, out)
          /\ position' = position + 1
    /\ UNCHANGED <<entry, start_id, end_id, tournaments_to_scrape, behaviour,
                   tournament_stats, backfill_pc>>

\* main, lines 108-140: one iteration; lines 153-157 when it raises.
MainTournament ==
    /\ entry = "main"
    /\ backfill_pc = "loop"
    /\ position <= Len(tournaments_to_scrape)
    /\ LET t == tournaments_to_scrape[position]
           out == MainIteration(behaviour[t])
       IN /\ processed' = Append(processed, t)
          /\ outcomes' = Append(outcomes, out)
          /\ IF out = "raised"
             THEN /\ backfill_pc' = "aborted"
                  /\ position' = position
                  /\ UNCHANGED tournament_stats
             ELSE /\ backfill_pc' = backfill_pc
                  /\ position' = position + 1
                  /\ IF out = "stats"
                     THEN \E n \in 0..Found :
                            tournament_stats' =
                                [tournament_stats EXCEPT
                                    ![t] = [recorded |-> TRUE, total |-> Found,
                                            stored |-> n]]
                     ELSE UNCHANGED tournament_stats
    /\ UNCHANGED <<entry, start_id, end_id, tournaments_to_scrape, behaviour>>

\* The for loop is exhausted: line 473, and lines 108 and 142-154.
BackfillEnd ==
    /\ backfill_pc = "loop"
    /\ position > Len(tournaments_to_scrape)
    /\ backfill_pc' = "done"
    /\ UNCHANGED <<entry, start_id, end_id, tournaments_to_scrape, behaviour,
                   position, processed, outcomes, tournament_stats>>

\* No backfill runs.
BackfillIdle ==
    /\ entry = "main"
    /\ start_id = 628
    /\ end_id = 628
    /\ tournaments_to_scrape = <<>>
    /\ behaviour = [t \in BackfillIds |-> "no_matches"]
    /\ position = 1
    /\ processed = <<>>
    /\ outcomes = <<>>
    /\ tournament_stats = [t \in BackfillIds |-> NoStats]
    /\ backfill_pc = "loop"

-----------------------------------------------------------------------------
(* fetch_matches: the retry loop *)

\* Line 341.
max_retries == 3

\* What the page GET of line 348 can fail with: requests raises; the request
\* is not in the cache in cache-only mode (line 194). An error of
\* response.json() while _cached_request builds the cache entry is caught
\* there (lines 127-128) and never reaches fetch_matches.
PageFailures == {"page_transport_error", "page_not_cached"}

\* What the AJAX POST of line 351 can fail with, the same two ways.
AjaxRequestFailures == {"ajax_transport_error", "ajax_not_cached"}

\* What an answer of the AJAX POST leads to: a status of error (line 352); a
\* body that is no JSON (line 355); JSON null; JSON without TorikumiData;
\* JSON that is no container; then what get_tournament_dates does (None, an
\* exception of requests, another exception) and what parse_match_data does
\* (it raises, it returns no record, it returns records).
AnswerKinds ==
    {"status_error", "invalid_json", "json_none", "no_torikumi_data",
     "json_not_a_container", "dates_none", "dates_request_exception",
     "dates_other_exception", "parser_raises", "no_records", "records"}

AttemptKinds == PageFailures \cup AjaxRequestFailures \cup AnswerKinds

\* The failures of transport and of status.
TransportFailures == {"page_transport_error", "ajax_transport_error", "status_error"}

AlwaysReturns(kind) ==
    IF kind = "records" THEN {"return_matches"} ELSE {"return_empty"}

\* Lines 345-389: how an iteration ends. RequestException (lines 383-387) and
\* JSONDecodeError of line 355 (lines 377-381): retry_count += 1, sleep,
\* continue. Any other exception (lines 388-390): return [].
AfterAttempt(kind) ==
    IF kind \in TransportFailures \cup {"invalid_json", "dates_request_exception"}
    THEN {"retry"}
    ELSE IF kind = "records" THEN {"return_matches"}
    ELSE {"return_empty"}

FetchInit ==
    /\ retry_count = 0
    /\ attempts = <<>>
    /\ ajax_requests = 0
    /\ fetch_result = "none"
    /\ fetch_pc = "loop"

\* One iteration of while retry_count < max_retries, lines 344-389.
FetchAttempt ==
    /\ fetch_pc = "loop"
    /\ retry_count < max_retries
    /\ \E kind \in AttemptKinds : \E next \in AfterAttempt(kind) :
          /\ attempts' = Append(attempts, kind)
          /\ ajax_requests' = IF kind \in PageFailures THEN ajax_requests
                              ELSE ajax_requests + 1
          /\ IF next = "retry"
             THEN /\ retry_count' = retry_count + 1
                  /\ UNCHANGED <<fetch_result, fetch_pc>>
             ELSE /\ fetch_result' = IF next = "return_matches" THEN "matches"
                                     ELSE "empty"
                  /\ fetch_pc' = "returned"
                  /\ UNCHANGED retry_count

\* Lines 391-392: the attempts are used up; return [].
FetchGiveUp ==
    /\ fetch_pc = "loop"
    /\ retry_count >= max_retries
    /\ fetch_result' = "empty"
    /\ fetch_pc' = "returned"
    /\ UNCHANGED <<retry_count, attempts, ajax_requests>>

\* No call of fetch_matches.
FetchIdle ==
    /\ retry_count = 0
    /\ attempts = <<>>
    /\ ajax_requests = 0
    /\ fetch_result = "none"
    /\ fetch_pc = "loop"

-----------------------------------------------------------------------------
(* get_tournament_day_results: the six divisions of one day *)

\* Line 402: for division in range(1, 7).
NumDivisions == 6

\* What one call of fetch_matches comes to. It returns a list on every path
\* (lines 344-392): [] when the attempts are used up or an error is caught
\* ("failed"), [] when the site has no bout for the division ("no_data"),
\* or the records of the division.
DivisionYields == {"failed", "no_data", "one", "two"}

\* A record of parse_match_data, by its division and its place in the list.
DivisionRecord(d, n) == [division |-> d, bout |-> n]

\* The list fetch_matches returns for division d.
FetchedMatches(d, yield) ==
    IF yield = "one" THEN <<DivisionRecord(d, 1)>>
    ELSE IF yield = "two" THEN <<DivisionRecord(d, 1), DivisionRecord(d, 2)>>
    ELSE <<>>

ExtendOverwrites(all, ms) == IF ms # <<>> THEN ms ELSE all

\* Lines 406-407: if matches: all_matches.extend(matches).
Extend(all, ms) == IF ms # <<>> THEN all \o ms ELSE all

DayInit ==
    /\ division_yield \in [1..NumDivisions -> DivisionYields]
    /\ next_division = 1
    /\ divisions_fetched = <<>>
    /\ all_matches = <<>>
    /\ day_pc = "loop"

\* One iteration of the for loop, lines 402-410.
DayDivision ==
    /\ day_pc = "loop"
    /\ next_division <= NumDivisions
    /\ all_matches' = Extend(all_matches,
                             FetchedMatches(next_division,
                                            division_yield[next_division]))
    /\ divisions_fetched' = Append(divisions_fetched, next_division)
    /\ next_division' = next_division + 1
    /\ UNCHANGED <<division_yield, day_pc>>

\* Line 412: the loop is over; return all_matches.
DayReturn ==
    /\ day_pc = "loop"
    /\ next_division > NumDivisions
    /\ day_pc' = "returned"
    /\ UNCHANGED <<division_yield, next_division, divisions_fetched, all_matches>>

\* No call of get_tournament_day_results.
DayIdle ==
    /\ division_yield = [d \in 1..NumDivisions |-> "no_data"]
    /\ next_division = 1
    /\ divisions_fetched = <<>>
    /\ all_matches = <<>>
    /\ day_pc = "loop"

-----------------------------------------------------------------------------
(* daily_update.get_current_tournament_day *)

\* Line 30: the hour after which the day counts as complete.
DayCompleteHour == 19

\* Line 30: the modulus of the formula.
DayModulus == 15

MonthLengths == {28, 29, 30, 31}

Hours == 0..23

\* Line 30.
get_current_tournament_day(d, hour) ==
    IF hour < DayCompleteHour THEN (d % DayModulus) + 1
    ELSE ((d + 1) % DayModulus) + 1

HeuristicInit ==
    /\ days_in_month \in MonthLengths
    /\ day_of_month \in 1..days_in_month
    /\ current_hour \in Hours
    /\ tournament_day = 0

\* One call, lines 23-30.
GetCurrentTournamentDay ==
    /\ tournament_day = 0
    /\ tournament_day' = get_current_tournament_day(day_of_month, current_hour)
    /\ UNCHANGED <<days_in_month, day_of_month, current_hour>>

\* No call of get_current_tournament_day.
HeuristicIdle ==
    /\ days_in_month = 31
    /\ day_of_month = 1
    /\ current_hour = 0
    /\ tournament_day = 0

-----------------------------------------------------------------------------
(* The writers of the table matches and the table rikishi *)

\* winner_id / loser_id of a record (match_scraper.py lines 288-289, 303-304):
\* rikishi_id of the side as the site gives it, None where it gives none.
RikishiIdOf(name) == IF name = "Hoshoryu" THEN "3842" ELSE None

RikishiIds == {RikishiIdOf(n) : n \in Names} \ {None}

\* The non-null ids the records of a list refer to (lines 486-491).
IdsOf(ms) ==
    ({RikishiIdOf(ms[j].winner_name) : j \in 1..Len(ms)}
     \cup {RikishiIdOf(ms[j].loser_name) : j \in 1..Len(ms)}) \ {None}

NoRikishi == [i \in RikishiIds |-> 0]

RECURSIVE StoreLoop(_, _, _, _)
\* The for loop of store_matches (lines 42-55) run to its end on one session
\* with no other writer: what the transaction holds when the loop is over.
StoreLoop(committed, pending, existing, ms) ==
    IF ms = <<>> THEN pending
    ELSE LET k == Head(ms)
         IN IF k \in existing
            THEN StoreLoop(committed, pending, existing, Tail(ms))
            ELSE IF UniqueViolation(k, Merge(committed, pending))
            THEN StoreLoop(committed, NoRows, existing, Tail(ms))
            ELSE StoreLoop(committed, Insert(pending, k), existing \cup {k},
                           Tail(ms))

\* ensure_rikishi_exist, lines 486-502: a row for every id of the records
\* that has none.
EnsureRikishiExist(rikishi, ms) ==
    [i \in RikishiIds |->
        IF i \in IdsOf(ms) /\ rikishi[i] = 0 THEN 1 ELSE rikishi[i]]

NoWrite == [op |-> "none", outcome |-> "none", candidates |-> 0]

WrestlersInit ==
    /\ match_table = NoRows
    /\ rikishi_table = NoRikishi
    /\ rikishi_importable \in BOOLEAN
    /\ last_write = NoWrite

\* initial_data_dump.store_matches, lines 21-66, as one step: the rows the
\* loop flushed are committed; no statement of it touches the table rikishi.
WriteStoreMatches ==
    \E ms \in CandidateLists, t \in TournamentIds :
        /\ match_table' =
              Merge(match_table,
                    StoreLoop(match_table, NoRows, LoadExisting(match_table, t), ms))
        /\ last_write' = [op |-> "store_matches", outcome |-> "returned",
                          candidates |-> Len(ms)]
        /\ UNCHANGED <<rikishi_table, rikishi_importable>>

\* daily_update.store_daily_matches, lines 32-70, as one step, on a list with
\* a record: line 47 reads match.wrestler_name, which Match does not have;
\* AttributeError leaves the function before anything is added.
WriteStoreDailyMatches ==
    \E ms \in CandidateLists \ {<<>>} :
        /\ last_write' = [op |-> "store_daily_matches",
                          outcome |-> "AttributeError", candidates |-> Len(ms)]
        /\ UNCHANGED <<match_table, rikishi_table, rikishi_importable>>

\* save_tournament_to_db, lines 455-467, as one step. Line 483 raises
\* ImportError where models.rikishi cannot be imported; otherwise the
\* wrestlers are committed (line 502), then the records (lines 463-464),
\* unless one collides and the commit raises IntegrityError.
WriteSaveTournament ==
    \E ms \in ScrapedLists :
        /\ IF ~rikishi_importable
           THEN /\ last_write' = [op |-> "save_tournament_to_db",
                                  outcome |-> "ImportError",
                                  candidates |-> Len(ms)]
                /\ UNCHANGED <<match_table, rikishi_table>>
           ELSE /\ rikishi_table' = EnsureRikishiExist(rikishi_table, ms)
                /\ IF BatchViolation(match_table, ms)
                   THEN /\ last_write' = [op |-> "save_tournament_to_db",
                                          outcome |-> "IntegrityError",
                                          candidates |-> Len(ms)]
                        /\ UNCHANGED match_table
                   ELSE /\ last_write' = [op |-> "save_tournament_to_db",
                                          outcome |-> "returned",
                                          candidates |-> Len(ms)]
                        /\ match_table' = InsertAll(match_table, ms)
        /\ UNCHANGED rikishi_importable

\* Empty tables and no writer.
WrestlersIdle ==
    /\ match_table = NoRows
    /\ rikishi_table = NoRikishi
    /\ rikishi_importable = FALSE
    /\ last_write = NoWrite

-----------------------------------------------------------------------------
(* daily_update.store_daily_matches *)

\* The attributes of a Match object: the columns and relationships of
\* models/match.py, lines 10-28.
MatchAttributes ==
    {"id", "tournament_id", "tournament_day", "match_date", "division",
     "winner_name", "loser_name", "winner_id", "loser_id", "winner", "loser",
     "winning_technique"}

\* The attributes lines 39 and 47 read of a Match to build its key.
DailyKeyAttributes == {"tournament_id", "wrestler_name", "opponent_name", "match_date"}

\* Reading an attribute the object does not have raises AttributeError.
KeyReadable(attributes) == attributes \subseteq MatchAttributes

\* Lines 40-43: the rows of the tournament with the date of the first
\* candidate.
DailyLoaded(rows, t, ms) ==
    {k \in Rows(rows) : k.tournament_id = t /\ k.match_date = ms[1].match_date}

\* The tables that hold each key at most once.
StoredTables == [MatchKeys -> {0, 1}]

\* main calls store_daily_matches only with a list that is not empty (line
\* 104), the records parse_match_data built for the tournament.
DailyInit ==
    /\ daily_db \in StoredTables
    /\ daily_tournament \in TournamentIds
    /\ daily_matches \in {ms \in ScrapedLists : ms[1].tournament_id = daily_tournament}
    /\ daily_pc = "ready"
    /\ daily_error = "none"
    /\ daily_result = <<>>

\* Lines 34-44: the counters and the keys of the stored rows. The generator
\* reads m.wrestler_name of every row the query returns; no try block is
\* around it.
DailySnapshot ==
    /\ daily_pc = "ready"
    /\ IF DailyLoaded(daily_db, daily_tournament, daily_matches) # {}
          /\ ~KeyReadable(DailyKeyAttributes)
       THEN /\ daily_pc' = "raised"
            /\ daily_error' = "AttributeError"
       ELSE /\ daily_pc' = "loop"
            /\ UNCHANGED daily_error
    /\ UNCHANGED <<daily_db, daily_matches, daily_tournament, daily_result>>

\* Lines 46-47: the first iteration of the for loop builds match_key, before
\* the try block of line 50: match.wrestler_name raises AttributeError out of
\* store_daily_matches. Lines 49-70 are never reached with a list of Match
\* objects.
DailyFirstKey ==
    /\ daily_pc = "loop"
    /\ ~KeyReadable(DailyKeyAttributes)
    /\ daily_pc' = "raised"
    /\ daily_error' = "AttributeError"
    /\ UNCHANGED <<daily_db, daily_matches, daily_tournament, daily_result>>

\* No call of store_daily_matches.
DailyIdle ==
    /\ daily_db = NoRows
    /\ daily_tournament = 628
    /\ daily_matches = <<>>
    /\ daily_pc = "ready"
    /\ daily_error = "none"
    /\ daily_result = <<>>

-----------------------------------------------------------------------------
(* _get_cache_key as a function of the request *)

\* kwargs['params'] and kwargs['data']: dictionaries, as the list of their
\* items in insertion order; a name occurs once.
ItemLists ==
    {<<>>, <<(<<BashoId, 628>>)>>, <<(<<Day, 1>>)>>,
     <<(<<BashoId, 628>>), (<<Day, 1>>)>>, <<(<<Day, 1>>), (<<BashoId, 628>>)>>}

\* d.items() without the order.
ItemsOf(items) == {items[j] : j \in 1..Len(items)}

KeyRequests ==
    [method : {"get", "post"},
     url : {"/EnHonbashoMain/torikumi/1/1/", "/EnHonbashoMain/torikumiAjax/1/1/"},
     params : ItemLists, data : ItemLists]

\* Lines 70-83 on a call: sorted() sees the items, not their order.
KeyString(req) ==
    _get_cache_key([method |-> req.method, url |-> req.url,
                    params |-> ItemsOf(req.params), data |-> ItemsOf(req.data)])

KeyInit ==
    /\ request_a \in KeyRequests
    /\ request_b \in KeyRequests
    /\ key_a = <<>>
    /\ key_b = <<>>

\* _get_cache_key is called on both requests.
ComputeKeys ==
    /\ key_a = <<>>
    /\ key_a' = KeyString(request_a)
    /\ key_b' = KeyString(request_b)
    /\ UNCHANGED <<request_a, request_b>>

\* No call of _get_cache_key.
KeyIdle ==
    /\ request_a = [method |-> "get", url |-> "/EnHonbashoMain/torikumi/1/1/",
                    params |-> <<>>, data |-> <<>>]
    /\ request_b = request_a
    /\ key_a = <<>>
    /\ key_b = <<>>

-----------------------------------------------------------------------------
(* fetch_matches: from the AJAX answer to the dated records *)

MaxDated == 2           \* longest TorikumiData list of a dated answer

\* The bouts of a dated answer: those with a technique and both sides, and
\* an element that is no object.
DatedBouts ==
    {b \in Bouts : /\ b.judge.kind = "int"
                   /\ b.technic_name_eng = "yorikiri"
                   /\ b.east.kind = "dict" /\ b.west.kind = "dict"}
        \cup {NotAnObject}

DatedJson ==
    {j \in JsonInputs : j.bouts = <<>>}
        \cup {[kind |-> "dict", torikumi |-> "list", bouts |-> bs] :
                bs \in UNION {[1..n -> DatedBouts] : n \in 1..MaxDated}}

\* The days fetch_matches is asked for: the first, the second, the last.
FetchDays == {1, 2, AllDays}

MatchDateOfDay(start_date, d) == start_date + d

\* Line 371: match_date = start_date + timedelta(days=day - 1).
MatchDate(start_date, d) == start_date + (d - 1)

\* Lines 357-376 with the handlers of lines 383-390: what fetch_matches
\* returns for json_data. None and a value without TorikumiData give [];
\* so do dates that are None (line 373), dates whose resolution raises
\* (retried or not, lines 383-390, then line 392) and a parser that raises
\* (line 388).
DatedMatches(json, t, d, res, dates) ==
    IF json.kind = "None" THEN <<>>
    ELSE IF json.kind # "dict" \/ json.torikumi = "missing" THEN <<>>
    ELSE IF res = "raised" \/ ~dates.resolved THEN <<>>
    ELSE LET out == parse_match_data(json, MatchDate(dates.start_date, d), t, d)
         IN IF out.raised THEN <<>> ELSE out.matches

DatingInit ==
    /\ fetch_tournament \in TournamentIds
    /\ fetch_day \in FetchDays
    /\ fetch_json \in DatedJson
    /\ dates_resolution \in Resolutions
    /\ fetch_dates \in IF dates_resolution = "raised" THEN {NoDates}
                       ELSE ResolvedRanges \cup {NoDates}
    /\ fetched = <<>>
    /\ dating_pc = "answered"

\* fetch_matches from line 355 to its return.
FetchDated ==
    /\ dating_pc = "answered"
    /\ fetched' = DatedMatches(fetch_json, fetch_tournament, fetch_day,
                               dates_resolution, fetch_dates)
    /\ dating_pc' = "returned"
    /\ UNCHANGED <<fetch_tournament, fetch_day, fetch_json, dates_resolution,
                   fetch_dates>>

\* No answer to read.
DatingIdle ==
    /\ fetch_tournament = 628
    /\ fetch_day = 1
    /\ fetch_json = [kind |-> "None", torikumi |-> "missing", bouts |-> <<>>]
    /\ dates_resolution = "returned"
    /\ fetch_dates = NoDates
    /\ fetched = <<>>
    /\ dating_pc = "answered"

-----------------------------------------------------------------------------
(* fetch_matches: the page GET and the AJAX POST of a process *)

\* The entries a cache file can hold: those _cached_request writes (lines
\* 119-125) for an answer with status 200.
Entries ==
    {CachedData(Live(r)) : r \in {x \in Responses : ShouldCache(x)
                                                    /\ ~CachingRaises(Live(x))}}

\* A process starts on the cache directory as earlier processes left it
\* (lines 39-40 create it only when missing): each request of fetch_matches is
\* cached or is not.
SessionInit ==
    /\ use_cache \in BOOLEAN
    /\ throttled = "network"
    /\ original = "unset"
    /\ cache \in {c \in [CacheKeys -> Entries \cup {NoEntry}] :
                     c[KeyOf[DatesRequest]] = NoEntry}
    /\ last = NoOperation
    /\ prev = Brief(NoOperation)
    /\ cache_only_requested = FALSE
    /\ wire = <<(<<>>), (<<>>)>>
    /\ session_pc = "page"
    /\ page_sent = FALSE

\* Line 348: the page GET through _cached_request. When it raises, the
\* attempt is over (lines 383-390) and the next one begins with the page.
SessionPageGet ==
    /\ session_pc = "page"
    /\ CachedRequest
    /\ last'.req = PageRequest
    /\ page_sent' = (page_sent \/ last'.net)
    /\ session_pc' = IF last'.outcome = "raised" THEN "page" ELSE "ajax"

\* Line 351: the AJAX POST through _cached_request; whatever becomes of it,
\* the next request of fetch_matches is a page GET.
SessionAjaxPost ==
    /\ session_pc = "ajax"
    /\ CachedRequest
    /\ last'.req = AjaxRequest
    /\ session_pc' = "page"
    /\ UNCHANGED page_sent

\* No process.
SessionIdle ==
    /\ session_pc = "page"
    /\ page_sent = FALSE

-----------------------------------------------------------------------------
(* The specifications *)

\* The store before any script runs.
StoreIdle ==
    /\ db = NoRows
    /\ txn = NoRows
    /\ pc = "idle"
    /\ matches = <<>>
    /\ tournament_id = 628
    /\ existing_matches = {}
    /\ idx = 1
    /\ stored_count = 0
    /\ duplicate_count = 0
    /\ result = <<>>
    /\ run = 0
    /\ db_at_call = NoRows
    /\ flushed_ok = {}
    /\ commit_ok = FALSE
    /\ persisted_by_call = 0
    /\ prev_result = <<>>
    /\ interfered = FALSE
    /\ save_outcome = "none"

StoreOnly == UNCHANGED <<cacheVars, parseVars, rangeVars, resolverVars,
        backfillVars, fetchVars, dayVars, heuristicVars, wrestlersVars,
        dailyVars, keyVars, datingVars, sessionVars>>

CacheOnly == UNCHANGED <<storeVars, parseVars, rangeVars, resolverVars,
        backfillVars, fetchVars, dayVars, heuristicVars, wrestlersVars,
        dailyVars, keyVars, datingVars, sessionVars>>

ParseOnly == UNCHANGED <<storeVars, cacheVars, rangeVars, resolverVars,
        backfillVars, fetchVars, dayVars, heuristicVars, wrestlersVars,
        dailyVars, keyVars, datingVars, sessionVars>>

RangeOnly == UNCHANGED <<storeVars, cacheVars, parseVars, resolverVars,
        backfillVars, fetchVars, dayVars, heuristicVars, wrestlersVars,
        dailyVars, keyVars, datingVars, sessionVars>>

ResolverOnly == UNCHANGED <<storeVars, cacheVars, parseVars, rangeVars,
        backfillVars, fetchVars, dayVars, heuristicVars, wrestlersVars,
        dailyVars, keyVars, datingVars, sessionVars>>

BackfillOnly == UNCHANGED <<storeVars, cacheVars, parseVars, rangeVars,
        resolverVars, fetchVars, dayVars, heuristicVars, wrestlersVars,
        dailyVars, keyVars, datingVars, sessionVars>>

FetchOnly == UNCHANGED <<storeVars, cacheVars, parseVars, rangeVars,
        resolverVars, backfillVars, dayVars, heuristicVars, wrestlersVars,
        dailyVars, keyVars, datingVars, sessionVars>>

DayOnly == UNCHANGED <<storeVars, cacheVars, parseVars, rangeVars,
        resolverVars, backfillVars, fetchVars, heuristicVars, wrestlersVars,
        dailyVars, keyVars, datingVars, sessionVars>>

HeuristicOnly == UNCHANGED <<storeVars, cacheVars, parseVars, rangeVars,
        resolverVars, backfillVars, fetchVars, dayVars, wrestlersVars,
        dailyVars, keyVars, datingVars, sessionVars>>

WrestlersOnly == UNCHANGED <<storeVars, cacheVars, parseVars, rangeVars,
        resolverVars, backfillVars, fetchVars, dayVars, heuristicVars,
        dailyVars, keyVars, datingVars, sessionVars>>

DailyOnly == UNCHANGED <<storeVars, cacheVars, parseVars, rangeVars,
        resolverVars, backfillVars, fetchVars, dayVars, heuristicVars,
        wrestlersVars, keyVars, datingVars, sessionVars>>

KeyOnly == UNCHANGED <<storeVars, cacheVars, parseVars, rangeVars,
        resolverVars, backfillVars, fetchVars, dayVars, heuristicVars,
        wrestlersVars, dailyVars, datingVars, sessionVars>>

DatingOnly == UNCHANGED <<storeVars, cacheVars, parseVars, rangeVars,
        resolverVars, backfillVars, fetchVars, dayVars, heuristicVars,
        wrestlersVars, dailyVars, keyVars, sessionVars>>

InitStore ==
    StoreInit /\ CacheIdle /\ ParseIdle /\ RangeIdle /\ ResolverIdle
    /\ BackfillIdle /\ FetchIdle /\ DayIdle /\ HeuristicIdle /\ WrestlersIdle
    /\ DailyIdle /\ KeyIdle /\ DatingIdle /\ SessionIdle

NextStore ==
    \/ StoreBegin /\ StoreOnly
    \/ StoreSkip /\ StoreOnly
    \/ StoreFlush /\ StoreOnly
    \/ StoreFlushFails /\ StoreOnly
    \/ StoreLoopEnd /\ StoreOnly
    \/ StoreCommit /\ StoreOnly
    \/ StoreCommitFails /\ StoreOnly
    \/ StoreCommitRaises /\ StoreOnly
    \/ OtherWriter /\ StoreOnly
    \/ SaveImportFails /\ StoreOnly
    \/ SaveCommit /\ StoreOnly
    \/ SaveCommitFails /\ StoreOnly

\* store_matches, save_tournament_to_db and the other writers of the table.
SpecStore == InitStore /\ [][NextStore]_vars

InitCache ==
    CacheInit /\ StoreIdle /\ ParseIdle /\ RangeIdle /\ ResolverIdle
    /\ BackfillIdle /\ FetchIdle /\ DayIdle /\ HeuristicIdle /\ WrestlersIdle
    /\ DailyIdle /\ KeyIdle /\ DatingIdle /\ SessionIdle

NextCache ==
    \/ CachedRequest /\ CacheOnly
    \/ DirectRequest /\ CacheOnly
    \/ SetCacheOnlyMode /\ CacheOnly

\* The requests of one scraper.
SpecCache == InitCache /\ [][NextCache]_vars

InitParse ==
    ParseInit /\ StoreIdle /\ CacheIdle /\ RangeIdle /\ ResolverIdle
    /\ BackfillIdle /\ FetchIdle /\ DayIdle /\ HeuristicIdle /\ WrestlersIdle
    /\ DailyIdle /\ KeyIdle /\ DatingIdle /\ SessionIdle

NextParse == ParseMatchData /\ ParseOnly

\* One call of parse_match_data on each input.
SpecParse == InitParse /\ [][NextParse]_vars

InitRange ==
    RangeInit /\ StoreIdle /\ CacheIdle /\ ParseIdle /\ ResolverIdle
    /\ BackfillIdle /\ FetchIdle /\ DayIdle /\ HeuristicIdle /\ WrestlersIdle
    /\ DailyIdle /\ KeyIdle /\ DatingIdle /\ SessionIdle

NextRange ==
    \/ RangeNoDates /\ RangeOnly
    \/ RangeDatesRaise /\ RangeOnly
    \/ RangePlan /\ RangeOnly
    \/ RangeScrapeDay /\ RangeOnly
    \/ RangeReturn /\ RangeOnly

\* One call of get_all_tournament_results on each date range and each today.
SpecRange == InitRange /\ [][NextRange]_vars

InitResolver ==
    ResolverInit /\ StoreIdle /\ CacheIdle /\ ParseIdle /\ RangeIdle
    /\ BackfillIdle /\ FetchIdle /\ DayIdle /\ HeuristicIdle /\ WrestlersIdle
    /\ DailyIdle /\ KeyIdle /\ DatingIdle /\ SessionIdle

NextResolver == GetTournamentDates /\ ResolverOnly

\* The calls of get_tournament_dates on one scraper.
SpecResolver == InitResolver /\ [][NextResolver]_vars

InitBackfill ==
    BackfillInit /\ StoreIdle /\ CacheIdle /\ ParseIdle /\ RangeIdle
    /\ ResolverIdle /\ FetchIdle /\ DayIdle /\ HeuristicIdle /\ WrestlersIdle
    /\ DailyIdle /\ KeyIdle /\ DatingIdle /\ SessionIdle

NextBackfill ==
    \/ ImportTournament /\ BackfillOnly
    \/ MainTournament /\ BackfillOnly
    \/ BackfillEnd /\ BackfillOnly

\* One run of import_historical_tournaments or of main.
SpecBackfill == InitBackfill /\ [][NextBackfill]_vars

InitFetch ==
    FetchInit /\ StoreIdle /\ CacheIdle /\ ParseIdle /\ RangeIdle
    /\ ResolverIdle /\ BackfillIdle /\ DayIdle /\ HeuristicIdle
    /\ WrestlersIdle /\ DailyIdle /\ KeyIdle /\ DatingIdle /\ SessionIdle

NextFetch ==
    \/ FetchAttempt /\ FetchOnly
    \/ FetchGiveUp /\ FetchOnly

\* One call of fetch_matches under every sequence of outcomes.
SpecFetch == InitFetch /\ [][NextFetch]_vars

InitDay ==
    DayInit /\ StoreIdle /\ CacheIdle /\ ParseIdle /\ RangeIdle
    /\ ResolverIdle /\ BackfillIdle /\ FetchIdle /\ HeuristicIdle
    /\ WrestlersIdle /\ DailyIdle /\ KeyIdle /\ DatingIdle /\ SessionIdle

NextDay ==
    \/ DayDivision /\ DayOnly
    \/ DayReturn /\ DayOnly

\* One call of get_tournament_day_results under every yield of the divisions.
SpecDay == InitDay /\ [][NextDay]_vars

InitHeuristic ==
    HeuristicInit /\ StoreIdle /\ CacheIdle /\ ParseIdle /\ RangeIdle
    /\ ResolverIdle /\ BackfillIdle /\ FetchIdle /\ DayIdle /\ WrestlersIdle
    /\ DailyIdle /\ KeyIdle /\ DatingIdle /\ SessionIdle

NextHeuristic == GetCurrentTournamentDay /\ HeuristicOnly

\* One call of get_current_tournament_day on each day and hour.
SpecHeuristic == InitHeuristic /\ [][NextHeuristic]_vars

InitWrestlers ==
    WrestlersInit /\ StoreIdle /\ CacheIdle /\ ParseIdle /\ RangeIdle
    /\ ResolverIdle /\ BackfillIdle /\ FetchIdle /\ DayIdle /\ HeuristicIdle
    /\ DailyIdle /\ KeyIdle /\ DatingIdle /\ SessionIdle

NextWrestlers ==
    \/ WriteStoreMatches /\ WrestlersOnly
    \/ WriteStoreDailyMatches /\ WrestlersOnly
    \/ WriteSaveTournament /\ WrestlersOnly

\* The three writers, one call after the other on one database.
SpecWrestlers == InitWrestlers /\ [][NextWrestlers]_vars

InitDaily ==
    DailyInit /\ StoreIdle /\ CacheIdle /\ ParseIdle /\ RangeIdle
    /\ ResolverIdle /\ BackfillIdle /\ FetchIdle /\ DayIdle /\ HeuristicIdle
    /\ WrestlersIdle /\ KeyIdle /\ DatingIdle /\ SessionIdle

NextDaily ==
    \/ DailySnapshot /\ DailyOnly
    \/ DailyFirstKey /\ DailyOnly

\* One call of store_daily_matches on each table and each list of records.
SpecDaily == InitDaily /\ [][NextDaily]_vars

InitCaches == InitCache \/ InitResolver

\* The transport reads and writes no variable of the resolver, and the
\* resolver none of the transport (its AJAX request of line 240 goes to
\* _throttled_request without the response cache): a behaviour of the two
\* caches of one scraper is a behaviour of the transport or one of the
\* resolver, the other one at rest.
NextCaches ==
    \/ ResolverIdle /\ CachedRequest /\ CacheOnly
    \/ ResolverIdle /\ DirectRequest /\ CacheOnly
    \/ ResolverIdle /\ SetCacheOnlyMode /\ CacheOnly
    \/ CacheIdle /\ GetTournamentDates /\ ResolverOnly

\* The response cache and the date cache of one scraper.
SpecCaches == InitCaches /\ [][NextCaches]_vars

InitKey ==
    KeyInit /\ StoreIdle /\ CacheIdle /\ ParseIdle /\ RangeIdle
    /\ ResolverIdle /\ BackfillIdle /\ FetchIdle /\ DayIdle /\ HeuristicIdle
    /\ WrestlersIdle /\ DailyIdle /\ DatingIdle /\ SessionIdle

NextKey == ComputeKeys /\ KeyOnly

\* _get_cache_key on every pair of requests.
SpecKey == InitKey /\ [][NextKey]_vars

InitDating ==
    DatingInit /\ StoreIdle /\ CacheIdle /\ ParseIdle /\ RangeIdle
    /\ ResolverIdle /\ BackfillIdle /\ FetchIdle /\ DayIdle /\ HeuristicIdle
    /\ WrestlersIdle /\ DailyIdle /\ KeyIdle /\ SessionIdle

NextDating == FetchDated /\ DatingOnly

\* fetch_matches on every answer, day and resolution of the dates.
SpecDating == InitDating /\ [][NextDating]_vars

CookiesOnly == UNCHANGED <<storeVars, parseVars, rangeVars, resolverVars,
        backfillVars, fetchVars, dayVars, heuristicVars, wrestlersVars,
        dailyVars, keyVars, datingVars>>

InitCookies ==
    SessionInit /\ StoreIdle /\ ParseIdle /\ RangeIdle /\ ResolverIdle
    /\ BackfillIdle /\ FetchIdle /\ DayIdle /\ HeuristicIdle /\ WrestlersIdle
    /\ DailyIdle /\ KeyIdle /\ DatingIdle

NextCookies ==
    \/ SessionPageGet /\ CookiesOnly
    \/ SessionAjaxPost /\ CookiesOnly

\* The requests of fetch_matches in a process that finds the cache directory
\* of earlier processes.
SpecCookies == InitCookies /\ [][NextCookies]_vars

-----------------------------------------------------------------------------
(* Properties of the dedup store *)

AllOfTournament == \A j \in 1..Len(matches) : matches[j].tournament_id = tournament_id

\* The number of distinct keys of the candidates that were not stored when
\* the running call began.
NovelKeys == Cardinality(KeysOf(matches) \ Rows(db_at_call))

\* C1: for candidates of tournament t and no other writer, store_matches
\* returns (|C|, N) with N the number of distinct keys of C not yet stored;
\* called again with the same candidates it returns (|C|, 0) and leaves the
\* store as the first call left it.
C1_Idempotence ==
    (pc = "done" /\ ~interfered /\ AllOfTournament) =>
        /\ result = <<Len(matches), NovelKeys>>
        /\ run >= 2 =>
              /\ result = <<Len(matches), 0>>
              /\ prev_result[1] = result[1]
              /\ db = db_at_call

C1_Witness ==
    /\ pc = "done" /\ ~interfered /\ AllOfTournament
    /\ run = 2
    /\ Len(matches) >= 2
    /\ prev_result[2] >= 1
    /\ result[2] = 0

\* C2: no two persisted matches share (tournament_id, winner_name,
\* loser_name, match_date), whatever store_matches, save_tournament_to_db
\* and the other writers did, failed calls included.
C2_Uniqueness == \A k \in MatchKeys : db[k] <= 1

C2_Witness ==
    /\ pc = "done"
    /\ duplicate_count > 0
    /\ save_outcome = "IntegrityError"
    /\ Cardinality(Rows(db)) >= 2

\* C3: when an insert of the batch hits a uniqueness violation caused by
\* another writer after the snapshot was loaded, the candidates flushed
\* successfully in the same batch are still persisted after the final commit.
C3_PerRecordIsolation ==
    (pc = "done" /\ commit_ok /\ AllOfTournament /\ duplicate_count > 0) =>
        \A k \in flushed_ok : db[k] >= 1

\* C4: the stored_count that store_matches returns is the number of rows the
\* call made durable.
C4_StoredCountIsPersisted ==
    pc = "done" => result[2] = persisted_by_call

-----------------------------------------------------------------------------
(* Properties of the cached transport *)

\* The last two operations were _cached_request of the same request, with
\* caching enabled, and the first of them did not find the request cached.
SameRequestTwice ==
    /\ prev.op = "cached" /\ last.op = "cached"
    /\ prev.req = last.req
    /\ prev.use_cache /\ last.use_cache
    /\ ~prev.hit

NetCalls(operation) == IF operation.net THEN 1 ELSE 0

\* C5 as stated: the identical request issued twice through _cached_request
\* with caching enabled makes exactly one network call, and the second call
\* is answered from the cache.
C5_OneNetworkCall ==
    SameRequestTwice =>
        /\ NetCalls(prev) + NetCalls(last) = 1
        /\ last.outcome = "cache"

\* C5 as amended: a miss is written to the cache exactly when the network
\* answered with status 200 and a body that can be stored; after a miss that
\* was written the identical request is answered from the cache, one network
\* call in all; after a miss that was not written it is not answered from
\* the cache.
C5_OneNetworkCallIfStored ==
    /\ (last.op = "cached" /\ last.use_cache /\ ~last.hit) =>
          (last.wrote <=> /\ last.net
                          /\ last.outcome = "network"
                          /\ last.response.status_code = 200
                          /\ ~(last.response.json_content_type
                               /\ last.response.text # "json"))
    /\ (SameRequestTwice /\ prev.wrote) =>
          /\ NetCalls(prev) + NetCalls(last) = 1
          /\ last.outcome = "cache"
    /\ (SameRequestTwice /\ ~prev.wrote) => last.outcome # "cache"

C5_Witness ==
    /\ SameRequestTwice
    /\ prev.wrote
    /\ last.outcome = "cache"

-----------------------------------------------------------------------------
(* Properties of the bout parser *)

IsDecided(b) == b.kind = "dict" /\ b.judge \in {[kind |-> "int", value |-> 1],
                                                [kind |-> "int", value |-> 2]}

IsObject(b) == b.kind = "dict"

DecidedBouts == SelectSeq(json_data.bouts, IsDecided)

\* What a side of a bout says of its competitor; nothing for a side that is
\* missing or null.
NameOf(side) ==
    IF side.kind = "dict" /\ side.shikona_eng # Absent THEN side.shikona_eng ELSE ""
IdOf(side) ==
    IF side.kind = "dict" /\ side.rikishi_id # Absent THEN side.rikishi_id ELSE None
DivisionOf(side) ==
    IF side.kind = "dict" /\ side.banzuke_name_eng # Absent
    THEN side.banzuke_name_eng ELSE ""

\* C7: the records are those of the bouts with judge 1 or 2, in order, and no
\* others; with judge 1 east is the winner and west the loser, with judge 2
\* west is the winner and east the loser; every record carries the given
\* tournament_id, day and match_date, the technique and the division of its
\* bout.
C7_ParserRoles ==
    parse_pc = "returned" =>
        /\ Len(parsed) = Len(DecidedBouts)
        /\ \A i \in 1..Len(parsed) :
              LET b == DecidedBouts[i]
                  m == parsed[i]
                  w == IF b.judge.value = 1 THEN b.east ELSE b.west
                  l == IF b.judge.value = 1 THEN b.west ELSE b.east
              IN /\ m.winner_name = NameOf(w) /\ m.winner_id = IdOf(w)
                 /\ m.loser_name = NameOf(l) /\ m.loser_id = IdOf(l)
                 /\ m.tournament_id = parse_tournament
                 /\ m.tournament_day = day
                 /\ m.match_date = match_date
                 /\ m.winning_technique =
                        (IF b.technic_name_eng = Absent THEN "" ELSE b.technic_name_eng)
                 /\ m.division = (IF DivisionOf(b.east) # "" THEN DivisionOf(b.east)
                                  ELSE DivisionOf(b.west))

C7_Witness ==
    /\ parse_pc = "returned"
    /\ Len(json_data.bouts) = 2
    /\ json_data.bouts[1].judge = [kind |-> "str", value |-> 1]
    /\ json_data.bouts[2].judge = [kind |-> "int", value |-> 2]
    /\ json_data.bouts[2].east.kind = "dict"
    /\ Len(parsed) = 1
    /\ parsed[1].winner_name = "Onosato"
    /\ parsed[1].loser_name = "Hoshoryu"

C9_NeverRaises == parse_pc # "raised"

\* json_data is None, or an object whose TorikumiData is absent, null or a
\* list.
ParsableShape ==
    \/ json_data.kind = "None"
    \/ (json_data.kind = "dict" /\ json_data.torikumi \in {"missing", "null", "list"})

\* A side that is missing or null, made an empty object.
WithEmptySides(b) ==
    [b EXCEPT !.east = IF @.kind \in {"missing", "null"} THEN EmptyDict ELSE @,
              !.west = IF @.kind \in {"missing", "null"} THEN EmptyDict ELSE @]

WithEmptySidesAll(bs) == [i \in 1..Len(bs) |-> WithEmptySides(bs[i])]

\* C9 as amended: parse_match_data does not raise when json_data is None or
\* an object whose TorikumiData is absent, null or a list; it raises when
\* json_data is a value without get, such as a list, or TorikumiData cannot
\* be iterated, such as a number.  When it returns, a side that is missing or
\* null counts as an empty competitor, and a bout that cannot be processed
\* is skipped: the records are those of the batch without it, in the same
\* order.
C9_RaisesOnlyOnShape ==
    /\ parse_pc = "raised" => ~ParsableShape
    /\ parse_pc = "returned" =>
          /\ ParsableShape
          /\ parsed = parse_match_data(
                          [json_data EXCEPT !.bouts = SelectSeq(@, IsObject)],
                          match_date, parse_tournament, day).matches
          /\ parsed = parse_match_data(
                          [json_data EXCEPT !.bouts = WithEmptySidesAll(@)],
                          match_date, parse_tournament, day).matches

C9_Witness ==
    /\ parse_pc = "returned"
    /\ Len(json_data.bouts) = 2
    /\ ~IsObject(json_data.bouts[1])
    /\ json_data.bouts[2].east.kind = "missing"
    /\ json_data.bouts[2].west.kind = "null"
    /\ Len(parsed) = 1
    /\ parsed[1].winner_name = ""

-----------------------------------------------------------------------------
(* Properties of the range planner *)

\* C10: for a range with end_date = start_date + 14 the number of days
\* scraped is 0 before the start, (today - start_date) + 1 from the start to
\* the end, and 15 after the end; today = D - 1 gives 0, D + 3 gives 4,
\* D + 14 gives 15 and D + 20 gives 15.
C10_RangePlanner ==
    (/\ range_pc = "returned"
     /\ tournament_dates.resolved
     /\ tournament_dates.end_date = tournament_dates.start_date + 14) =>
        LET D == tournament_dates.start_date
            n == Len(days_requested)
        IN /\ today < D => n = 0
           /\ (D <= today /\ today <= D + 14) => n = (today - D) + 1
           /\ today > D + 14 => n = 15
           /\ today = D - 1 => n = 0
           /\ today = D + 3 => n = 4
           /\ today = D + 14 => n = 15
           /\ today = D + 20 => n = 15

C10_Witness ==
    /\ range_pc = "returned"
    /\ tournament_dates.resolved
    /\ tournament_dates.end_date = tournament_dates.start_date + 14
    /\ today = tournament_dates.start_date + 3
    /\ days_requested = <<1, 2, 3, 4>>

\* C11: get_all_tournament_results requests the days 1..N in ascending order,
\* each once, N being the number of days the planner found available, and
\* never a day greater than N nor a day greater than 15, whatever range the
\* resolver returned.
C11_DayLoopGated ==
    /\ \A i \in 1..Len(days_requested) :
          /\ days_requested[i] = i
          /\ days_requested[i] <= days_to_scrape
          /\ days_requested[i] <= 15
    /\ (range_pc = "returned" /\ tournament_dates.resolved) =>
          Len(days_requested) = days_to_scrape

-----------------------------------------------------------------------------
(* Properties of the date resolver *)

\* C12: the strategies are tried in order and the first success is returned;
\* for an id that is neither in the in-memory cache nor in the static table
\* the AJAX call is attempted, whether or not the table can be imported.
C12_StrategyChain ==
    resolve_call.outcome # "none" =>
        /\ resolve_call.cached_before # NoDates =>
              /\ resolve_call.attempted = <<"memory">>
              /\ resolve_call.range = resolve_call.cached_before
        /\ (resolve_call.cached_before = NoDates /\ resolve_call.in_table) =>
              /\ resolve_call.attempted = <<"memory", "table">>
              /\ resolve_call.range = TOURNAMENT_DATES[resolve_call.t]
        /\ (resolve_call.cached_before = NoDates /\ ~resolve_call.in_table) =>
              resolve_call.attempted = <<"memory", "table", "ajax">>

\* C13: get_tournament_dates never raises; when no strategy yields dates it
\* returns None and leaves the in-memory cache as it was.
C13_FailureIsNone ==
    /\ resolve_call.outcome # "raised"
    /\ resolve_call.outcome = "None" =>
          _tournament_dates_cache = resolve_call.dates_before

\* C14: once get_tournament_dates(t) has returned a range, every later call
\* for t returns that range from the in-memory cache, with no network call
\* and no lookup in the table.
C14_Memoized ==
    (resolve_call.outcome # "none" /\ resolve_call.returned_before # NoDates) =>
        /\ resolve_call.outcome = "range"
        /\ resolve_call.range = resolve_call.returned_before
        /\ resolve_call.attempted = <<"memory">>
        /\ resolve_call.net = 0

C14_Witness ==
    /\ resolve_call.outcome # "none"
    /\ resolve_call.returned_before # NoDates
    /\ first_strategy[resolve_call.t] = "ajax"
    /\ resolve_call.outcome = "range"
    /\ resolve_call.o = "transport_error"

\* C15: every entry of the in-memory cache and every range that
\* get_tournament_dates returns has end_date = start_date + 14.
C15_RangeInvariant ==
    /\ \A t \in TournamentIds :
          _tournament_dates_cache[t] # NoDates =>
              _tournament_dates_cache[t].end_date =
                  _tournament_dates_cache[t].start_date + 14
    /\ resolve_call.outcome = "range" =>
          resolve_call.range.end_date = resolve_call.range.start_date + 14

-----------------------------------------------------------------------------
(* Properties of the backfill *)

Terminated == backfill_pc \in {"done", "aborted"}

\* C16: an exception raised while one tournament id is processed is caught
\* for that id only: when the backfill ends, import_historical_tournaments
\* or main, every id of the range has been processed.
C16_ContinuesPastFailure ==
    Terminated => processed = tournaments_to_scrape

Between(a, b) == {t \in BackfillIds : (a <= t /\ t <= b) \/ (b <= t /\ t <= a)}

\* C18 as stated: import_historical_tournaments(start_id, end_id) processes
\* every id between start_id and end_id inclusive exactly once, ascending or
\* descending.
C18_RangeCoverage ==
    (Terminated /\ entry = "import") =>
        /\ {processed[i] : i \in 1..Len(processed)} = Between(start_id, end_id)
        /\ Len(processed) = Cardinality(Between(start_id, end_id))

\* C18 as amended: with start_id <= end_id it processes every id from
\* start_id to end_id inclusive exactly once, in ascending order; with
\* start_id > end_id it processes no id.
C18_AscendingCoverage ==
    (Terminated /\ entry = "import") =>
        /\ start_id <= end_id =>
              /\ Len(processed) = end_id - start_id + 1
              /\ \A i \in 1..Len(processed) : processed[i] = start_id + i - 1
        /\ start_id > end_id => processed = <<>>

C18_Witness ==
    /\ Terminated /\ entry = "import"
    /\ start_id = 626 /\ end_id = 628
    /\ processed = <<626, 627, 628>>
    /\ outcomes[2] = "error_caught"

-----------------------------------------------------------------------------
(* Properties of fetch_matches *)

\* C19: fetch_matches never raises and makes at most 3 attempts, at most 3
\* AJAX requests; an attempt that fails in transport or with a status of error
\* is retried, so the call does not return on such a failure before the third
\* attempt; when the attempts are used up it returns [].
C19_BoundedRetry ==
    /\ fetch_pc # "raised"
    /\ Len(attempts) <= 3
    /\ ajax_requests <= 3
    /\ retry_count <= 3
    /\ (fetch_pc = "returned" /\ attempts # <<>>
            /\ attempts[Len(attempts)] \in TransportFailures) =>
          /\ Len(attempts) = 3
          /\ fetch_result = "empty"
    /\ (fetch_pc = "loop" /\ attempts # <<>>
            /\ attempts[Len(attempts)] \in TransportFailures) =>
          retry_count = Len(attempts)
    /\ (fetch_pc = "returned" /\ retry_count = 3) => fetch_result = "empty"

C19_Witness ==
    /\ fetch_pc = "returned"
    /\ attempts = <<"ajax_transport_error", "status_error", "page_transport_error">>
    /\ ajax_requests = 2
    /\ fetch_result = "empty"

-----------------------------------------------------------------------------
(* Properties of the rate limit *)

\* What the last two operations did, as one sequence.
Wire == wire[1] \o wire[2]

\* C20: every request to the site, from _cached_request or from
\* get_tournament_dates, comes right after the delay, so no two requests are
\* sent without a delay between them; a request answered from the cache makes
\* neither a delay nor a network call.
C20_RateLimit ==
    /\ \A i \in 1..Len(Wire) :
          Wire[i] = "send" => (i > 1 /\ Wire[i - 1] = "sleep")
    /\ (last.op \in {"cached", "direct"} /\ last.net) => wire[2] = <<"sleep", "send">>
    /\ last.outcome = "cache" => (wire[2] = <<>> /\ ~last.net)

C20_Witness ==
    /\ prev.op = "cached" /\ prev.net
    /\ last.op = "direct" /\ last.net
    /\ Wire = <<"sleep", "send", "sleep", "send">>

\* C21 (as the specification states it): on a miss with caching enabled the
\* answer is written to the cache exactly when its status is one of the 2xx.
C21_CachedIff2xx ==
    (last.op = "cached" /\ last.use_cache /\ ~last.hit) =>
        (last.wrote <=> (last.outcome # "raised"
                         /\ last.response.status_code \in 200..299))

\* C21: on a miss with caching enabled the answer is written to the cache
\* exactly when its status is 200 and its entry can be built (a JSON
\* Content-Type whose body does not decode leaves nothing written); what is
\* written is the entry of that answer, and every other answer, a transport
\* error included, leaves the fingerprint without an entry.
C21_CachePopulation ==
    (last.op = "cached" /\ last.use_cache /\ ~last.hit) =>
        /\ last.wrote <=> (/\ last.outcome # "raised"
                           /\ last.response.status_code = 200
                           /\ ~CachingRaises(last.response))
        /\ last.wrote => cache[KeyOf[last.req]] = CachedData(last.response)
        /\ ~last.wrote => cache[KeyOf[last.req]] = NoEntry

\* A failed answer left the fingerprint empty and the next answer, a 200,
\* filled it.
C21_Witness ==
    /\ last.op = "cached" /\ last.use_cache /\ ~last.hit /\ last.wrote
    /\ prev.op = "cached" /\ prev.use_cache /\ prev.net /\ ~prev.wrote
    /\ prev.req = last.req


\* The lists of the divisions lo..NumDivisions one after the other.
RECURSIVE Concatenated(_)
Concatenated(lo) ==
    IF lo > NumDivisions THEN <<>>
    ELSE FetchedMatches(lo, division_yield[lo]) \o Concatenated(lo + 1)

\* The records of division d within a list.
OfDivision(list, d) ==
    LET RECURSIVE Pick(_)
        Pick(i) == IF i > Len(list) THEN <<>>
                   ELSE IF list[i].division = d THEN <<list[i]>> \o Pick(i + 1)
                   ELSE Pick(i + 1)
    IN Pick(1)

\* C22: get_tournament_day_results attempts each of the six divisions once,
\* in the order 1..6, and returns what they yielded concatenated in that
\* order; a division that fails or has no data contributes nothing and
\* leaves the contribution of every other division as it is; the call ends
\* by returning.
C22_DivisionTolerance ==
    /\ day_pc \in {"loop", "returned"}
    /\ day_pc = "returned" =>
          /\ divisions_fetched = [i \in 1..NumDivisions |-> i]
          /\ all_matches = Concatenated(1)
          /\ \A d \in 1..NumDivisions :
                OfDivision(all_matches, d) = FetchedMatches(d, division_yield[d])

\* A division between two that gave records failed.
C22_Witness ==
    /\ day_pc = "returned"
    /\ division_yield[1] = "two"
    /\ division_yield[2] = "failed"
    /\ division_yield[3] = "one"
    /\ Len(all_matches) >= 3

\* C23: whenever the dates of the tournament cannot be resolved, because
\* get_tournament_dates returns None or because it raises,
\* get_all_tournament_results returns [] without raising and without asking
\* for any day.
C23_UnresolvedIsEmpty ==
    (range_pc # "ready" /\ (resolution = "raised" \/ ~tournament_dates.resolved)) =>
        /\ range_pc = "returned"
        /\ days_requested = <<>>

\* The day of month of the calendar date after day d of a month of len days.
TomorrowDay(d, len) == IF d = len THEN 1 ELSE d + 1

\* C24: get_current_tournament_day returns (day_of_month mod 15) + 1 before
\* 19:00 and the same formula on the day of month of tomorrow's calendar date
\* from 19:00 on (the last day of a month uses day 1 of the next month); the
\* result is always in 1..15, and day 9 at hour 10 gives 10.
C24_DailyHeuristic ==
    tournament_day # 0 =>
        /\ tournament_day =
              IF current_hour < 19 THEN (day_of_month % 15) + 1
              ELSE (TomorrowDay(day_of_month, days_in_month) % 15) + 1
        /\ tournament_day \in 1..15
        /\ (day_of_month = 9 /\ current_hour = 10) => tournament_day = 10

\* C25: after any operation that persists matches, every non-null winner_id
\* and loser_id of a persisted match has exactly one row of the table rikishi
\* keyed by it, and no id ever has more than one row.
C25_WrestlersExist ==
    /\ \A i \in RikishiIds : rikishi_table[i] <= 1
    /\ \A k \in Rows(match_table) :
          /\ RikishiIdOf(k.winner_name) # None =>
                rikishi_table[RikishiIdOf(k.winner_name)] = 1
          /\ RikishiIdOf(k.loser_name) # None =>
                rikishi_table[RikishiIdOf(k.loser_name)] = 1

\* C26: when the final commit of store_matches fails, for whatever reason,
\* the batch is rolled back and store_matches returns normally, its pair of
\* counts included, instead of raising.
C26_CommitFailureContained ==
    /\ pc # "raised"
    /\ (pc = "done" /\ ~commit_ok) =>
          /\ txn = NoRows
          /\ persisted_by_call = 0
          /\ result = <<Len(matches), stored_count>>

\* C27: for a non-empty list of the records parse_match_data built for the
\* tournament, store_daily_matches ends by returning, never by raising, and
\* what it returns is (number of candidates, number of candidates whose key
\* was not yet stored for that tournament and date).
C27_DailyStore ==
    /\ daily_pc # "raised"
    /\ daily_pc = "returned" =>
          daily_result =
             <<Len(daily_matches),
               Cardinality(KeysOf(daily_matches)
                           \ DailyLoaded(daily_db, daily_tournament, daily_matches))>>

C29_ModeRestored ==
    /\ (last.op = "mode" /\ ~last.use_cache) => throttled = "network"
    /\ (/\ last.op \in {"cached", "direct"}
        /\ prev.op = "mode" /\ ~prev.use_cache
        /\ last.outcome # "cache") => last.net

\* The two requests agree in method, URL, set of query-parameter pairs and
\* set of body pairs.
SameFour ==
    /\ request_a.method = request_b.method
    /\ request_a.url = request_b.url
    /\ ItemsOf(request_a.params) = ItemsOf(request_b.params)
    /\ ItemsOf(request_a.data) = ItemsOf(request_b.data)

\* C30: the cache key is determined by exactly (method, URL, set of
\* query-parameter pairs, set of body pairs): two requests that agree in the
\* four have the same key whatever the order of their parameters, and two
\* that differ in any of them have different keys before hashing.
C30_KeyOfTheFour ==
    key_a # <<>> => (key_a = key_b <=> SameFour)

\* C31: a cache hit is equivalent to the original response. When the AJAX
\* request of fetch_matches is answered from the cache, fetch_matches reads
\* from the synthesized response what it read from the response that was
\* written to the cache, whatever the Content-Type of that response was.
C31_HitEquivalent ==
    (last.op = "cached" /\ last.hit /\ last.req = AjaxRequest) =>
        ReadByFetch(last.response) =
            ReadByFetch(Live([status_code |-> 200, json_content_type |-> FALSE,
                              text |-> last.response.text]))

\* C32: every record fetch_matches returns for tournament t and day d has
\* tournament_id = t, tournament_day = d and match_date = start_date + (d - 1),
\* start_date being the resolved start of t; when the dates of t cannot be
\* resolved no record is returned.
C32_MatchDating ==
    dating_pc = "returned" =>
        /\ \A i \in 1..Len(fetched) :
              /\ fetched[i].tournament_id = fetch_tournament
              /\ fetched[i].tournament_day = fetch_day
              /\ fetched[i].match_date = fetch_dates.start_date + (fetch_day - 1)
        /\ (dates_resolution = "raised" \/ ~fetch_dates.resolved) => fetched = <<>>

\* Two records of day 2 came back for a tournament that starts on day 10.
C32_Witness ==
    /\ dating_pc = "returned"
    /\ fetch_day = 2
    /\ fetch_dates.resolved /\ fetch_dates.start_date = 10
    /\ Len(fetched) = 2
    /\ fetched[1].match_date = 11

\* C33: in every attempt of fetch_matches the page GET is issued before the
\* AJAX POST, and whenever the AJAX POST is sent over the network the page
\* GET of the same division and day has been sent over the network earlier
\* in the same process.
C33_PageBeforeAjax ==
    (last.op = "cached" /\ last.req = AjaxRequest) =>
        /\ prev.op = "cached" /\ prev.req = PageRequest
        /\ last.net => page_sent

\* C34: of the occurrences of one key in the candidate list at most the
\* first is handed to the database: the inserts a call attempts (the
\* successful and the failed ones) are no more than the distinct keys of the
\* list that existing_matches did not hold when the loop began.
C34_OneAttemptPerKey ==
    pc \in {"commit", "done"} =>
        stored_count + duplicate_count
            <= Cardinality(KeysOf(matches)
                           \ LoadExisting(db_at_call, tournament_id))


=============================================================================
